---- MODULE Spec2Model ----
(***************************************************************************)
(* Case persistence of fm-case-service: the repository contract with its   *)
(* two backends, the dictionary-backed InMemoryCaseRepository and the      *)
(* PostgreSQLHybridCaseRepository (root table `cases` with embedded JSON   *)
(* columns plus normalized child tables), and the per-request session      *)
(* scope of DatabaseClient.get_session.                                    *)
(*                                                                         *)
(* Tables hold the columns the repository's statements name.  Keys and     *)
(* foreign keys are those of alembic/versions/20250208_initial_hybrid_     *)
(* schema.py: every child table has a table-wide primary key on its id     *)
(* column, case_status_transitions has only the serial transition_id, and  *)
(* every child row's case_id references cases with ON DELETE CASCADE.  A   *)
(* column that an INSERT does not name is left NULL.                       *)
(*                                                                         *)
(* One repository call on the hybrid backend is one request scope: the     *)
(* statements run on the session's working copy, and get_session commits   *)
(* the copy when the call returned and discards it when the call raised.   *)
(* Child lists are modelled as maps keyed by the item id (list order is    *)
(* not modelled; ids within one aggregate are distinct).                   *)
(***************************************************************************)
EXTENDS Integers, Sequences, FiniteSets, TLC

VARIABLES
    storage_type,   \* CASE_STORAGE_TYPE: "postgres" or "inmemory", fixed at start; "both" runs
                    \* the two backends side by side, "postgres_single" adds the
                    \* single-table PostgreSQLCaseRepository reading the same rows
    db,             \* committed contents of the hybrid schema's tables
    cases,          \* InMemoryCaseRepository._cases: case_id -> Case
    now,            \* the wall clock read by datetime.now() / NOW()
    last,           \* the most recent repository call: arguments, outcome, state before,
                    \* and the aggregate of the save it directly follows
    saved,          \* history: case_id -> owner, title, status and closed_at given to the latest save
                    \* that returned, for the ids saved and not deleted since
    sessions        \* hybrid saves in flight, each in a database session of its own:
                    \* session -> the aggregate, the next statement and the working copy

vars == <<storage_type, db, cases, now, last, saved, sessions>>

----------------------------------------------------------------------------
(* Bounds of the model *)

MaxTransitionRows == 2   \* rows kept in case_status_transitions
MaxMessages == 2         \* messages per case
MaxLimit == 3            \* largest limit / offset passed to list
MaxClock == 3            \* latest instant the clock reaches, in days
MaxBatch == 2            \* largest batch_size passed to cleanup_expired

----------------------------------------------------------------------------
(* Values *)

NullTime == 0
SqlNull == [null |-> TRUE]
None == "None"
Empty == [x \in {} |-> x]

CaseIds == {"case_1", "case_2"}
ListCaseIds == {"case_1", "case_2", "case_3"}
UserIds == {"user_a", "user_b"}
OrgIds == {"default", "org_b"}
CaseStatus == {"consulting", "investigating", "resolved", "closed"}
HypothesisStatus == {"proposed", "testing", "validated", "invalidated", "deferred"}
SolutionStatus == {"proposed", "in_progress", "implemented", "verified", "rejected"}

EvidenceIds == {"ev_1", "ev_2"}
HypothesisIds == {"hyp_1"}
SolutionIds == {"sol_1"}
FileIds == {"file_1"}
MessageIds == {"msg_1", "msg_2"}

RequiredEmbedded == {"consulting", "documentation", "progress"}
OptionalEmbedded == {"problem_verification", "working_conclusion", "root_cause_conclusion",
                     "path_selection", "degraded_mode", "escalation_state"}
EmbeddedColumns == RequiredEmbedded \cup OptionalEmbedded

Min(a, b) == IF a <= b THEN a ELSE b
Max(a, b) == IF a >= b THEN a ELSE b

Restrict(f, S) == [x \in S |-> f[x]]

\* seq[offset:offset + limit] of Python
Slice(seq, offset, limit) ==
    LET n == Len(seq)
        lo == Min(offset, n)
        hi == Min(offset + limit, n)
    IN  IF hi <= lo THEN <<>> ELSE SubSeq(seq, lo + 1, hi)

\* every entry of s occurs in t, in the same relative order
RECURSIVE IsSubSeq(_, _)
IsSubSeq(s, t) ==
    IF s = <<>> THEN TRUE
    ELSE IF t = <<>> THEN FALSE
    ELSE IF Head(s) = Head(t) THEN IsSubSeq(Tail(s), Tail(t))
    ELSE IsSubSeq(s, Tail(t))

RECURSIVE SeqOfSet(_)
SeqOfSet(S) == IF S = {} THEN <<>>
               ELSE LET x == CHOOSE y \in S : TRUE IN <<x>> \o SeqOfSet(S \ {x})

----------------------------------------------------------------------------
(* The Case aggregate *)

\* a default-constructed sub-object of the given embedded type
DefaultDoc(name) == "default"

DefaultEmbedded == [n \in EmbeddedColumns |-> IF n \in RequiredEmbedded THEN DefaultDoc(n) ELSE None]

NewCase(case_id, user_id) ==
    [case_id |-> case_id, user_id |-> user_id, organization_id |-> "default",
     title |-> "title_1", description |-> "", status |-> "consulting",
     status_history |-> <<>>,
     embedded |-> DefaultEmbedded,
     uploaded_files |-> Empty, evidence |-> Empty, hypotheses |-> Empty, solutions |-> Empty,
     messages |-> <<>>, message_count |-> 0,
     created_at |-> 1, updated_at |-> 1, last_activity_at |-> 1,
     resolved_at |-> NullTime, closed_at |-> NullTime]

----------------------------------------------------------------------------
(* The hybrid schema *)

\* the exception class the repository contract is declared with, and the class
\* of the same name that the hybrid module defines and raises
ContractRepositoryException == [name |-> "RepositoryException", module |-> "case_repository"]
HybridRepositoryException ==
    [name |-> "RepositoryException", module |-> "postgresql_hybrid_case_repository"]

EmptyDb ==
    [cases |-> Empty, evidence |-> Empty, hypotheses |-> Empty, solutions |-> Empty,
     uploaded_files |-> Empty, case_messages |-> <<>>, case_status_transitions |-> <<>>]

json_dumps(doc) == [json |-> doc]
json_loads(col) == col.json

\* rows of a keyed child table that belong to a case
RowsOf(table, case_id) == {id \in DOMAIN table : table[id].case_id = case_id}
\* rows of a sequence-shaped table that belong to a case, in insertion order
SeqRowsOf(table, case_id) == SelectSeq(table, LAMBDA r : r.case_id = case_id)

upsert_case_record(tx, case) ==
    LET cols == [n \in EmbeddedColumns |->
                    IF n \in RequiredEmbedded \/ case.embedded[n] # None
                    THEN json_dumps(case.embedded[n]) ELSE SqlNull]
        row  == IF case.case_id \in DOMAIN tx.cases
                THEN [tx.cases[case.case_id] EXCEPT
                         !.user_id = case.user_id, !.title = case.title,
                         !.status = case.status, !.updated_at = case.updated_at,
                         !.embedded = cols]
                ELSE [user_id |-> case.user_id, organization_id |-> SqlNull,
                      title |-> case.title, status |-> case.status,
                      created_at |-> case.created_at, updated_at |-> case.updated_at,
                      last_activity_at |-> NullTime, resolved_at |-> NullTime,
                      closed_at |-> NullTime, embedded |-> cols]
    IN  [tx EXCEPT !.cases = [id \in DOMAIN tx.cases \cup {case.case_id} |->
                                 IF id = case.case_id THEN row ELSE tx.cases[id]]]

\* Each child upsert first deletes, then writes every item of the collection with
\* INSERT ... ON CONFLICT (<id>) DO UPDATE SET <updated columns>: a row whose id is
\* already in the table is updated in the named columns only, whichever case owns it.

\* DELETE FROM <child> WHERE case_id = :case_id AND <id> != ALL(:current_ids),
\* issued only when current_ids is not empty
delete_missing(table, case_id, current_ids) ==
    IF current_ids # {}
    THEN Restrict(table, {id \in DOMAIN table :
                             ~(table[id].case_id = case_id /\ id \notin current_ids)})
    ELSE table

evidence_insert(case_id, e) ==
    [case_id |-> case_id, category |-> e.data_type, summary |-> e.summary,
     file_size |-> e.file_size, filename |-> e.filename, upload_timestamp |-> e.timestamp]
evidence_update(row, e) ==
    [row EXCEPT !.category = e.data_type, !.summary = e.summary]

upsert_evidence(tx, case_id, evidence_list) ==
    LET kept == delete_missing(tx.evidence, case_id, DOMAIN evidence_list)
    IN  [tx EXCEPT !.evidence =
            [id \in DOMAIN kept \cup DOMAIN evidence_list |->
                IF id \notin DOMAIN evidence_list THEN kept[id]
                ELSE IF id \in DOMAIN kept THEN evidence_update(kept[id], evidence_list[id])
                ELSE evidence_insert(case_id, evidence_list[id])]]

hypothesis_insert(case_id, h) ==
    [case_id |-> case_id, description |-> h.description, status |-> "proposed",
     confidence_score |-> h.confidence]
hypothesis_update(row, h) ==
    [row EXCEPT !.description = h.description, !.status = "proposed",
                !.confidence_score = h.confidence]

upsert_hypotheses(tx, case_id, hypotheses_dict) ==
    LET kept == delete_missing(tx.hypotheses, case_id, DOMAIN hypotheses_dict)
    IN  [tx EXCEPT !.hypotheses =
            [id \in DOMAIN kept \cup DOMAIN hypotheses_dict |->
                IF id \notin DOMAIN hypotheses_dict THEN kept[id]
                ELSE IF id \in DOMAIN kept THEN hypothesis_update(kept[id], hypotheses_dict[id])
                ELSE hypothesis_insert(case_id, hypotheses_dict[id])]]

solution_insert(case_id, s) ==
    [case_id |-> case_id, description |-> s.description, status |-> "proposed"]
solution_update(row, s) ==
    [row EXCEPT !.description = s.description, !.status = "proposed"]

upsert_solutions(tx, case_id, solutions_list) ==
    LET kept == delete_missing(tx.solutions, case_id, DOMAIN solutions_list)
    IN  [tx EXCEPT !.solutions =
            [id \in DOMAIN kept \cup DOMAIN solutions_list |->
                IF id \notin DOMAIN solutions_list THEN kept[id]
                ELSE IF id \in DOMAIN kept THEN solution_update(kept[id], solutions_list[id])
                ELSE solution_insert(case_id, solutions_list[id])]]

file_insert(case_id, f) ==
    [case_id |-> case_id, filename |-> f.filename, size_bytes |-> f.size_bytes,
     uploaded_at |-> f.uploaded_at]
file_update(row, f) ==
    [row EXCEPT !.filename = f.filename, !.size_bytes = f.size_bytes]

upsert_uploaded_files(tx, case_id, files_list) ==
    LET kept == delete_missing(tx.uploaded_files, case_id, DOMAIN files_list)
    IN  [tx EXCEPT !.uploaded_files =
            [id \in DOMAIN kept \cup DOMAIN files_list |->
                IF id \notin DOMAIN files_list THEN kept[id]
                ELSE IF id \in DOMAIN kept THEN file_update(kept[id], files_list[id])
                ELSE file_insert(case_id, files_list[id])]]

\* INSERT ... ON CONFLICT DO NOTHING into a table whose only key is the serial
\* transition_id: no insert ever conflicts
append_status_transitions(tx, case_id, transitions) ==
    [tx EXCEPT !.case_status_transitions =
        @ \o [i \in 1..Len(transitions) |->
                [case_id |-> case_id, from_status |-> transitions[i].from_status,
                 to_status |-> transitions[i].to_status, reason |-> transitions[i].reason,
                 transitioned_at |-> transitions[i].timestamp]]]


\* the working copy after the DELETE of a child upsert, before its INSERTs
after_delete(tx, table, case_id, current_ids) ==
    [tx EXCEPT ![table] = delete_missing(tx[table], case_id, current_ids)]

\* the statements of PostgreSQLHybridCaseRepository.save, in order: of each child
\* upsert the DELETE and the INSERTs
SaveStatements == {"upsert_case_record",
                   "delete_evidence", "upsert_evidence",
                   "delete_hypotheses", "upsert_hypotheses",
                   "delete_solutions", "upsert_solutions",
                   "delete_uploaded_files", "upsert_uploaded_files",
                   "append_status_transitions", "flush"}

\* save on the session's working copy tx; the statement fail_at raises ("none": no
\* statement raises).  The outcome carries the working copy as the call left it.
hybrid_save(tx, case_arg, fail_at) ==
    LET case == [case_arg EXCEPT !.updated_at = now]
        s1 == upsert_case_record(tx, case)
        s2 == upsert_evidence(s1, case.case_id, case.evidence)
        s3 == upsert_hypotheses(s2, case.case_id, case.hypotheses)
        s4 == upsert_solutions(s3, case.case_id, case.solutions)
        s5 == upsert_uploaded_files(s4, case.case_id, case.uploaded_files)
        s6 == IF case.status_history # <<>>
              THEN append_status_transitions(s5, case.case_id, case.status_history)
              ELSE s5
        id == case.case_id
        before == [upsert_case_record |-> tx,
                   delete_evidence |-> s1,
                   upsert_evidence |-> after_delete(s1, "evidence", id, DOMAIN case.evidence),
                   delete_hypotheses |-> s2,
                   upsert_hypotheses |->
                       after_delete(s2, "hypotheses", id, DOMAIN case.hypotheses),
                   delete_solutions |-> s3,
                   upsert_solutions |-> after_delete(s3, "solutions", id, DOMAIN case.solutions),
                   delete_uploaded_files |-> s4,
                   upsert_uploaded_files |->
                       after_delete(s4, "uploaded_files", id, DOMAIN case.uploaded_files),
                   append_status_transitions |-> s5,
                   flush |-> s6]
    IN  IF fail_at = "none"
        THEN [tx |-> s6, raised |-> FALSE, ret |-> [case |-> case]]
        ELSE [tx |-> before[fail_at], raised |-> TRUE,
              ret |-> [error |-> HybridRepositoryException, cause |-> fail_at]]

\* a session scope that commits whatever the call left behind
get_session_always_commits(committed, outcome) == outcome.tx

\* DatabaseClient.get_session around one call: commit when the call returned,
\* roll back when it raised
get_session(committed, outcome) ==
    IF outcome.raised THEN committed ELSE outcome.tx

evidence_of_row(row) ==
    [data_type |-> row.category, summary |-> row.summary, file_size |-> row.file_size,
     filename |-> row.filename, timestamp |-> row.upload_timestamp]
hypothesis_of_row(row) ==
    [description |-> row.description, status |-> row.status,
     confidence |-> row.confidence_score]
solution_of_row(row) ==
    [description |-> row.description, status |-> row.status]
file_of_row(row) ==
    [filename |-> row.filename, size_bytes |-> row.size_bytes, uploaded_at |-> row.uploaded_at]

\* the joined and aggregated row of get, rebuilt into a Case
row_to_case(tx, case_id) ==
    LET row == tx.cases[case_id]
    IN  [case_id |-> case_id, user_id |-> row.user_id,
         organization_id |-> IF row.organization_id = SqlNull THEN None
                             ELSE row.organization_id.text,
         title |-> row.title, description |-> None, status |-> row.status,
         status_history |-> <<>>,
         embedded |-> [n \in EmbeddedColumns |->
                          IF row.embedded[n] # SqlNull THEN json_loads(row.embedded[n])
                          ELSE IF n \in RequiredEmbedded THEN DefaultDoc(n) ELSE None],
         uploaded_files |-> [id \in RowsOf(tx.uploaded_files, case_id) |->
                                file_of_row(tx.uploaded_files[id])],
         evidence |-> [id \in RowsOf(tx.evidence, case_id) |-> evidence_of_row(tx.evidence[id])],
         hypotheses |-> [id \in RowsOf(tx.hypotheses, case_id) |->
                            hypothesis_of_row(tx.hypotheses[id])],
         solutions |-> [id \in RowsOf(tx.solutions, case_id) |->
                           solution_of_row(tx.solutions[id])],
         messages |-> <<>>, message_count |-> 0,
         created_at |-> row.created_at, updated_at |-> row.updated_at,
         last_activity_at |-> row.last_activity_at,
         resolved_at |-> row.resolved_at, closed_at |-> row.closed_at]

\* get whose query lost its WHERE clause: the first row of cases is returned
hybrid_get_any_row(tx, case_id) ==
    IF DOMAIN tx.cases = {}
    THEN [found |-> FALSE]
    ELSE [found |-> TRUE, case |-> row_to_case(tx, CHOOSE id \in DOMAIN tx.cases : TRUE)]

hybrid_get(tx, case_id) ==
    IF case_id \notin DOMAIN tx.cases
    THEN [found |-> FALSE]
    ELSE [found |-> TRUE, case |-> row_to_case(tx, case_id)]

\* case_messages declared without ON DELETE CASCADE
cascade_keeps_messages(tx, case_id) ==
    [tx EXCEPT
        !.evidence = Restrict(@, DOMAIN @ \ RowsOf(@, case_id)),
        !.hypotheses = Restrict(@, DOMAIN @ \ RowsOf(@, case_id)),
        !.solutions = Restrict(@, DOMAIN @ \ RowsOf(@, case_id)),
        !.uploaded_files = Restrict(@, DOMAIN @ \ RowsOf(@, case_id)),
        !.case_status_transitions = SelectSeq(@, LAMBDA r : r.case_id # case_id)]

\* ON DELETE CASCADE of every child table's foreign key
cascade(tx, case_id) ==
    [tx EXCEPT
        !.evidence = Restrict(@, DOMAIN @ \ RowsOf(@, case_id)),
        !.hypotheses = Restrict(@, DOMAIN @ \ RowsOf(@, case_id)),
        !.solutions = Restrict(@, DOMAIN @ \ RowsOf(@, case_id)),
        !.uploaded_files = Restrict(@, DOMAIN @ \ RowsOf(@, case_id)),
        !.case_messages = SelectSeq(@, LAMBDA r : r.case_id # case_id),
        !.case_status_transitions = SelectSeq(@, LAMBDA r : r.case_id # case_id)]

\* delete that reports success whether or not a row was removed
hybrid_delete_always_true(tx, case_id) ==
    [tx |-> cascade([tx EXCEPT !.cases = Restrict(@, DOMAIN @ \ {case_id})], case_id),
     raised |-> FALSE, ret |-> [ok |-> TRUE]]

\* DELETE FROM cases WHERE case_id = :case_id; returns rowcount > 0
hybrid_delete(tx, case_id) ==
    IF case_id \in DOMAIN tx.cases
    THEN [tx |-> cascade([tx EXCEPT !.cases = Restrict(@, DOMAIN @ \ {case_id})], case_id),
          raised |-> FALSE, ret |-> [ok |-> TRUE]]
    ELSE [tx |-> tx, raised |-> FALSE, ret |-> [ok |-> FALSE]]

\* INSERT INTO case_messages: the primary key message_id and the foreign key
\* case_id are checked by the database
hybrid_add_message(tx, case_id, message_dict) ==
    IF \/ case_id \notin DOMAIN tx.cases
       \/ \E i \in 1..Len(tx.case_messages) :
             tx.case_messages[i].message_id = message_dict.message_id
    THEN [tx |-> tx, raised |-> TRUE, ret |-> [error |-> HybridRepositoryException]]
    ELSE [tx |-> [tx EXCEPT !.case_messages =
                     Append(@, [message_id |-> message_dict.message_id, case_id |-> case_id,
                                role |-> message_dict.role, content |-> message_dict.content,
                                created_at |-> now])],
          raised |-> FALSE, ret |-> [ok |-> TRUE]]

message_of_row(row) ==
    [message_id |-> row.message_id, role |-> row.role, content |-> row.content,
     created_at |-> row.created_at]

hybrid_get_messages(tx, case_id, limit, offset) ==
    LET rows == SeqRowsOf(tx.case_messages, case_id)
        page == Slice(rows, offset, limit)
    IN  [i \in 1..Len(page) |-> message_of_row(page[i])]

RECURSIVE SumSizes(_, _)
SumSizes(table, ids) ==
    IF ids = {} THEN 0
    ELSE LET id == CHOOSE x \in ids : TRUE
         IN  table[id].size_bytes + SumSizes(table, ids \ {id})

\* one SELECT over cases LEFT JOIN evidence, hypotheses, solutions, case_messages,
\* uploaded_files, grouped by case: COUNT(DISTINCT ...) counts rows, SUM(f.size_bytes)
\* adds each file once per joined combination of the other children
hybrid_get_analytics(tx, case_id) ==
    IF case_id \notin DOMAIN tx.cases
    THEN [empty |-> TRUE]
    ELSE LET ne == Cardinality(RowsOf(tx.evidence, case_id))
             nh == Cardinality(RowsOf(tx.hypotheses, case_id))
             ns == Cardinality(RowsOf(tx.solutions, case_id))
             nm == Len(SeqRowsOf(tx.case_messages, case_id))
             files == RowsOf(tx.uploaded_files, case_id)
         IN  [empty |-> FALSE, evidence_count |-> ne, hypothesis_count |-> nh,
              solution_count |-> ns, message_count |-> nm,
              file_count |-> Cardinality(files),
              total_file_size |-> SumSizes(tx.uploaded_files, files)
                                  * Max(1, ne) * Max(1, nh) * Max(1, ns) * Max(1, nm)]


\* the orders a descending sort by key may leave the ids in (ties in any order)
SortedDesc(ids, key) ==
    {s \in [1..Cardinality(ids) -> ids] :
        /\ \A i, j \in DOMAIN s : i # j => s[i] # s[j]
        /\ \A i, j \in DOMAIN s : i < j => key[s[i]] >= key[s[j]]}

\* a filter argument that is None (or empty) is not applied
Matches(c, user_id, organization_id, status) ==
    /\ user_id # None => c.user_id = user_id
    /\ organization_id # None => c.organization_id = organization_id
    /\ status # None => c.status = status

\* a page cut as seq[offset:limit]
Paginate_to_limit(seq, limit, offset) == Slice(seq, offset, Max(0, limit - offset))

\* LIMIT :limit OFFSET :offset, and filtered[offset:offset + limit]
Paginate(seq, limit, offset) == Slice(seq, offset, limit)

\* the WHERE clause of list: a comparison with a NULL column selects no row
RowMatches(row, user_id, organization_id, status) ==
    /\ user_id # None => row.user_id = user_id
    /\ organization_id # None => row.organization_id = [text |-> organization_id]
    /\ status # None => row.status = status

HybridMatching(tx, user_id, organization_id, status) ==
    {id \in DOMAIN tx.cases : RowMatches(tx.cases[id], user_id, organization_id, status)}

\* count query, then the page of case ids ORDER BY updated_at DESC, then get of each id;
\* order is the order the database returned the matching ids in
hybrid_list(tx, user_id, organization_id, status, limit, offset, order) ==
    LET page == Paginate(order, limit, offset)
    IN  [cases |-> [i \in 1..Len(page) |-> row_to_case(tx, page[i])],
         total_count |-> Cardinality(HybridMatching(tx, user_id, organization_id, status))]

----------------------------------------------------------------------------
(* InMemoryCaseRepository *)

inmemory_save(store, case_arg) ==
    LET case == [case_arg EXCEPT !.updated_at = now]
    IN  [store |-> [id \in DOMAIN store \cup {case.case_id} |->
                       IF id = case.case_id THEN case ELSE store[id]],
         raised |-> FALSE, ret |-> [case |-> case]]

inmemory_get(store, case_id) ==
    IF case_id \in DOMAIN store
    THEN [found |-> TRUE, case |-> store[case_id]]
    ELSE [found |-> FALSE]

inmemory_delete(store, case_id) ==
    IF case_id \in DOMAIN store
    THEN [store |-> Restrict(store, DOMAIN store \ {case_id}), raised |-> FALSE,
          ret |-> [ok |-> TRUE]]
    ELSE [store |-> store, raised |-> FALSE, ret |-> [ok |-> FALSE]]

InMemoryMatching(store, user_id, organization_id, status) ==
    {id \in DOMAIN store : Matches(store[id], user_id, organization_id, status)}

\* order is the order filtered.sort(key = last_activity_at, reverse = True) left
inmemory_list(store, user_id, organization_id, status, limit, offset, order) ==
    LET page == Paginate(order, limit, offset)
    IN  [cases |-> [i \in 1..Len(page) |-> store[page[i]]],
         total_count |-> Len(order)]

\* add_message that appends the message and leaves message_count as it was
inmemory_add_message_uncounted(store, case_id, message_dict) ==
    IF case_id \notin DOMAIN store
    THEN [store |-> store, raised |-> FALSE, ret |-> [ok |-> FALSE]]
    ELSE [store |-> [store EXCEPT ![case_id].messages = Append(@, message_dict),
                                  ![case_id].last_activity_at = now],
          raised |-> FALSE, ret |-> [ok |-> TRUE]]
inmemory_add_message(store, case_id, message_dict) ==
    IF case_id \notin DOMAIN store
    THEN [store |-> store, raised |-> FALSE, ret |-> [ok |-> FALSE]]
    ELSE [store |-> [store EXCEPT ![case_id].messages = Append(@, message_dict),
                                  ![case_id].message_count = @ + 1,
                                  ![case_id].last_activity_at = now],
          raised |-> FALSE, ret |-> [ok |-> TRUE]]

inmemory_get_messages(store, case_id, limit, offset) ==
    IF case_id \notin DOMAIN store THEN <<>>
    ELSE Slice(store[case_id].messages, offset, limit)

inmemory_get_analytics(store, case_id) ==
    IF case_id \notin DOMAIN store
    THEN [empty |-> TRUE]
    ELSE LET case == store[case_id]
         IN  [empty |-> FALSE, case_id |-> case.case_id, status |-> case.status,
              message_count |-> case.message_count,
              evidence_count |-> Cardinality(DOMAIN case.evidence),
              hypothesis_count |-> Cardinality(DOMAIN case.hypotheses),
              solution_count |-> Cardinality(DOMAIN case.solutions)]


----------------------------------------------------------------------------
(* Repository calls *)

Snapshot == [db |-> db, cases |-> cases]

Record(history, case) ==
    [id \in DOMAIN history \cup {case.case_id} |->
        IF id = case.case_id
        THEN [user_id |-> case.user_id, title |-> case.title, status |-> case.status,
              closed_at |-> case.closed_at]
        ELSE history[id]]

\* prev: when this call is a save that directly follows a save of the same case_id
\* that returned, the aggregate that save was given
Call(op, case_id, arg, raised, result) ==
    [op |-> op, case_id |-> case_id, arg |-> arg, raised |-> raised, result |-> result,
     pre |-> Snapshot,
     prev |-> IF op = "save" /\ last.op = "save" /\ ~last.raised /\ last.case_id = case_id
              THEN <<last.arg.case>> ELSE <<>>]

\* a statement can raise only when it is issued: a child upsert issues its DELETE and
\* one INSERT per item when the collection is not empty, the transition insert runs
\* once per entry of status_history
CanFail(case, fail_at) ==
    /\ fail_at \in {"delete_evidence", "upsert_evidence"} => DOMAIN case.evidence # {}
    /\ fail_at \in {"delete_hypotheses", "upsert_hypotheses"} => DOMAIN case.hypotheses # {}
    /\ fail_at \in {"delete_solutions", "upsert_solutions"} => DOMAIN case.solutions # {}
    /\ fail_at \in {"delete_uploaded_files", "upsert_uploaded_files"} =>
           DOMAIN case.uploaded_files # {}
    /\ fail_at = "append_status_transitions" => case.status_history # <<>>

Hybrid_save(case, fail_at) ==
    /\ storage_type = "postgres"
    /\ CanFail(case, fail_at)
    /\ Len(db.case_status_transitions) + Len(case.status_history) <= MaxTransitionRows
    /\ LET out == hybrid_save(db, case, fail_at)
       IN  /\ db' = get_session(db, out)
           /\ last' = Call("save", case.case_id, [case |-> case, attempted |-> out.tx],
                           out.raised, out.ret)
           /\ saved' = IF out.raised THEN saved ELSE Record(saved, case)
    /\ UNCHANGED <<storage_type, sessions, cases, now>>

Hybrid_get(case_id) ==
    /\ storage_type = "postgres"
    /\ last' = Call("get", case_id, Empty, FALSE, hybrid_get(db, case_id))
    /\ UNCHANGED <<storage_type, sessions, db, cases, now, saved>>

Hybrid_delete(case_id) ==
    /\ storage_type = "postgres"
    /\ LET out == hybrid_delete(db, case_id)
       IN  /\ db' = get_session(db, out)
           /\ last' = Call("delete", case_id, Empty, out.raised, out.ret)
           /\ saved' = Restrict(saved, DOMAIN saved \ {case_id})
    /\ UNCHANGED <<storage_type, sessions, cases, now>>

Hybrid_add_message(case_id, message_dict) ==
    /\ storage_type = "postgres"
    /\ Len(SeqRowsOf(db.case_messages, case_id)) < MaxMessages
    /\ LET out == hybrid_add_message(db, case_id, message_dict)
       IN  /\ db' = get_session(db, out)
           /\ last' = Call("add_message", case_id, [message |-> message_dict],
                           out.raised, out.ret)
    /\ UNCHANGED <<storage_type, sessions, cases, now, saved>>

Hybrid_get_messages(case_id, limit, offset) ==
    /\ storage_type = "postgres"
    /\ last' = Call("get_messages", case_id, [limit |-> limit, offset |-> offset], FALSE,
                    [messages |-> hybrid_get_messages(db, case_id, limit, offset)])
    /\ UNCHANGED <<storage_type, sessions, db, cases, now, saved>>

Hybrid_get_analytics(case_id) ==
    /\ storage_type = "postgres"
    /\ last' = Call("get_analytics", case_id, Empty, FALSE, hybrid_get_analytics(db, case_id))
    /\ UNCHANGED <<storage_type, sessions, db, cases, now, saved>>

Hybrid_list(user_id, organization_id, status, limit, offset) ==
    /\ storage_type = "postgres"
    /\ \E order \in SortedDesc(HybridMatching(db, user_id, organization_id, status),
                               [id \in DOMAIN db.cases |-> db.cases[id].updated_at]) :
          last' = Call("list", None,
                       [user_id |-> user_id, organization_id |-> organization_id,
                        status |-> status, limit |-> limit, offset |-> offset], FALSE,
                       hybrid_list(db, user_id, organization_id, status, limit, offset, order))
    /\ UNCHANGED <<storage_type, sessions, db, cases, now, saved>>

InMemory_save(case) ==
    /\ storage_type = "inmemory"
    /\ LET out == inmemory_save(cases, case)
       IN  /\ cases' = out.store
           /\ last' = Call("save", case.case_id, [case |-> case, attempted |-> out.store],
                           out.raised, out.ret)
           /\ saved' = Record(saved, case)
    /\ UNCHANGED <<storage_type, sessions, db, now>>

InMemory_get(case_id) ==
    /\ storage_type = "inmemory"
    /\ last' = Call("get", case_id, Empty, FALSE, inmemory_get(cases, case_id))
    /\ UNCHANGED <<storage_type, sessions, db, cases, now, saved>>

InMemory_delete(case_id) ==
    /\ storage_type = "inmemory"
    /\ LET out == inmemory_delete(cases, case_id)
       IN  /\ cases' = out.store
           /\ last' = Call("delete", case_id, Empty, out.raised, out.ret)
           /\ saved' = Restrict(saved, DOMAIN saved \ {case_id})
    /\ UNCHANGED <<storage_type, sessions, db, now>>

InMemory_add_message(case_id, message_dict) ==
    /\ storage_type = "inmemory"
    /\ case_id \in DOMAIN cases => Len(cases[case_id].messages) < MaxMessages
    /\ LET out == inmemory_add_message(cases, case_id, message_dict)
       IN  /\ cases' = out.store
           /\ last' = Call("add_message", case_id, [message |-> message_dict],
                           out.raised, out.ret)
    /\ UNCHANGED <<storage_type, sessions, db, now, saved>>

InMemory_get_messages(case_id, limit, offset) ==
    /\ storage_type = "inmemory"
    /\ last' = Call("get_messages", case_id, [limit |-> limit, offset |-> offset], FALSE,
                    [messages |-> inmemory_get_messages(cases, case_id, limit, offset)])
    /\ UNCHANGED <<storage_type, sessions, db, cases, now, saved>>

InMemory_get_analytics(case_id) ==
    /\ storage_type = "inmemory"
    /\ last' = Call("get_analytics", case_id, Empty, FALSE,
                    inmemory_get_analytics(cases, case_id))
    /\ UNCHANGED <<storage_type, sessions, db, cases, now, saved>>

InMemory_list(user_id, organization_id, status, limit, offset) ==
    /\ storage_type = "inmemory"
    /\ \E order \in SortedDesc(InMemoryMatching(cases, user_id, organization_id, status),
                               [id \in DOMAIN cases |-> cases[id].last_activity_at]) :
          last' = Call("list", None,
                       [user_id |-> user_id, organization_id |-> organization_id,
                        status |-> status, limit |-> limit, offset |-> offset], FALSE,
                       inmemory_list(cases, user_id, organization_id, status, limit, offset, order))
    /\ UNCHANGED <<storage_type, sessions, db, cases, now, saved>>

----------------------------------------------------------------------------
(* Inputs *)

Evidence(summary) ==
    [data_type |-> "LOGS_AND_ERRORS", summary |-> summary, file_size |-> 10,
     filename |-> "a.log", timestamp |-> 1]
Hypothesis(status, confidence) ==
    [description |-> "disk full", status |-> status, confidence |-> confidence]
Solution(status) == [description |-> "free space", status |-> status]
UploadedFile(size_bytes) == [filename |-> "a.log", size_bytes |-> size_bytes, uploaded_at |-> 1]
Message(message_id) == [message_id |-> message_id, role |-> "user", content |-> "hello"]
Transition(from_status, to_status) ==
    [from_status |-> from_status, to_status |-> to_status, reason |-> "r", timestamp |-> 1]

\* every map from a subset of ids into items
Collections(ids, items) == UNION {[S -> items] : S \in SUBSET ids}

FailPoints == {"none"} \cup SaveStatements

\* message ids are generated per message: those no stored in-memory message carries yet
FreshMessageIds ==
    {m \in MessageIds : \A id \in DOMAIN cases : \A i \in DOMAIN cases[id].messages :
                            cases[id].messages[i].message_id # m}

Init ==
    /\ storage_type \in {"postgres", "inmemory"}
    /\ db = EmptyDb
    /\ cases = Empty
    /\ now = 1
    /\ last = [op |-> "init", case_id |-> None, arg |-> Empty, raised |-> FALSE,
               result |-> Empty, pre |-> [db |-> EmptyDb, cases |-> Empty], prev |-> <<>>]
    /\ saved = Empty
    /\ sessions = Empty

InitHybrid == Init /\ storage_type = "postgres"

----------------------------------------------------------------------------
(* Spec: the life of cases on either backend - save, get, delete, messages,   *)
(* analytics                                                                  *)

OwnerOf == [id \in ListCaseIds |-> IF id = "case_2" THEN "user_b" ELSE "user_a"]

SpecCases ==
    {[NewCase(id, OwnerOf[id]) EXCEPT !.evidence = ev, !.status_history = sh] :
        id \in CaseIds,
        ev \in Collections({"ev_1"}, {Evidence("s1")}),
        sh \in {<<>>, <<Transition("consulting", "investigating")>>}}

Next ==
    \/ \E c \in SpecCases : Hybrid_save(c, "none")
    \/ \E id \in CaseIds : Hybrid_get(id)
    \/ \E id \in CaseIds : Hybrid_delete(id)
    \/ \E id \in CaseIds, m \in MessageIds : Hybrid_add_message(id, Message(m))
    \/ \E id \in CaseIds : Hybrid_get_messages(id, MaxMessages, 0)
    \/ \E id \in CaseIds : Hybrid_get_analytics(id)
    \/ \E c \in SpecCases : InMemory_save(c)
    \/ \E id \in CaseIds : InMemory_get(id)
    \/ \E id \in CaseIds : InMemory_delete(id)
    \/ \E id \in CaseIds, m \in FreshMessageIds : InMemory_add_message(id, Message(m))
    \/ \E id \in CaseIds : InMemory_get_messages(id, MaxMessages, 0)
    \/ \E id \in CaseIds : InMemory_get_analytics(id)

Spec == Init /\ [][Next]_vars


----------------------------------------------------------------------------
(* SpecUpsert: one case on the hybrid schema, saved with every combination of *)
(* its child collections; confidence is counted in tenths                     *)

UpsertCases ==
    {[NewCase("case_1", "user_a") EXCEPT !.evidence = ev, !.hypotheses = hy,
                                          !.solutions = so, !.uploaded_files = fi] :
        ev \in Collections(EvidenceIds, {Evidence("s1")}),
        hy \in Collections(HypothesisIds,
                           {Hypothesis("proposed", 4), Hypothesis("validated", 9)}),
        so \in Collections(SolutionIds, {Solution("proposed")}),
        fi \in Collections(FileIds, {UploadedFile(10)})}

NextUpsert ==
    \/ \E c \in UpsertCases : Hybrid_save(c, "none")
    \/ Hybrid_get("case_1")
    \/ Hybrid_delete("case_1")

SpecUpsert == InitHybrid /\ [][NextUpsert]_vars

----------------------------------------------------------------------------
(* SpecAtomic: saves on the hybrid schema in which any issued statement may   *)
(* raise                                                                      *)

FullCase(evidence_id, summary) ==
    [NewCase("case_1", "user_a") EXCEPT
        !.evidence = [id \in {evidence_id} |-> Evidence(summary)],
        !.hypotheses = [id \in HypothesisIds |-> Hypothesis("proposed", 4)],
        !.solutions = [id \in SolutionIds |-> Solution("proposed")],
        !.uploaded_files = [id \in FileIds |-> UploadedFile(10)],
        !.status_history = <<Transition("consulting", "investigating")>>]

AtomicCases ==
    {NewCase("case_1", "user_a")}
    \cup {FullCase(e, "s1") : e \in EvidenceIds}
    \cup {[FullCase(e, sm) EXCEPT !.status_history = <<>>] :
             e \in EvidenceIds, sm \in {"s1", "s2"}}

NextAtomic ==
    \/ \E c \in AtomicCases, f \in FailPoints : Hybrid_save(c, f)
    \/ Hybrid_get("case_1")
    \/ Hybrid_delete("case_1")

SpecAtomic == InitHybrid /\ [][NextAtomic]_vars

----------------------------------------------------------------------------
(* SpecList: listing with filters and pages, on either backend                *)

ListCases ==
    {[NewCase(id, OwnerOf[id]) EXCEPT !.status = st] :
        id \in ListCaseIds, st \in {"consulting", "investigating"}}

Pages == 0..MaxLimit

NextList ==
    \/ \E c \in ListCases : Hybrid_save(c, "none")
    \/ \E id \in ListCaseIds : Hybrid_delete(id)
    \/ \E u \in {None, "user_a"}, o \in {None, "default"}, st \in {None, "consulting"},
          limit \in Pages, offset \in Pages : Hybrid_list(u, o, st, limit, offset)
    \/ \E c \in ListCases : InMemory_save(c)
    \/ \E id \in ListCaseIds : InMemory_delete(id)
    \/ \E u \in {None, "user_a"}, o \in {None, "default"}, st \in {None, "consulting"},
          limit \in Pages, offset \in Pages : InMemory_list(u, o, st, limit, offset)

SpecList == Init /\ [][NextList]_vars

----------------------------------------------------------------------------
(* What a caller of the configured backend observes *)

GetIn(snapshot, case_id) ==
    IF storage_type = "postgres" THEN hybrid_get(snapshot.db, case_id)
    ELSE inmemory_get(snapshot.cases, case_id)
GetMessagesIn(snapshot, case_id) ==
    IF storage_type = "postgres" THEN hybrid_get_messages(snapshot.db, case_id, MaxMessages, 0)
    ELSE inmemory_get_messages(snapshot.cases, case_id, MaxMessages, 0)

Get(case_id) == GetIn(Snapshot, case_id)
GetMessages(case_id) == GetMessagesIn(Snapshot, case_id)
GetAnalytics(case_id) ==
    IF storage_type = "postgres" THEN hybrid_get_analytics(db, case_id)
    ELSE inmemory_get_analytics(cases, case_id)

\* everything the hybrid tables hold for one case
StoredFor(tables, case_id) ==
    [root |-> IF case_id \in DOMAIN tables.cases THEN <<tables.cases[case_id]>> ELSE <<>>,
     evidence |-> Restrict(tables.evidence, RowsOf(tables.evidence, case_id)),
     hypotheses |-> Restrict(tables.hypotheses, RowsOf(tables.hypotheses, case_id)),
     solutions |-> Restrict(tables.solutions, RowsOf(tables.solutions, case_id)),
     uploaded_files |-> Restrict(tables.uploaded_files, RowsOf(tables.uploaded_files, case_id)),
     case_messages |-> SeqRowsOf(tables.case_messages, case_id),
     case_status_transitions |-> SeqRowsOf(tables.case_status_transitions, case_id)]

NothingStoredFor(tables, case_id) ==
    /\ case_id \notin DOMAIN tables.cases
    /\ \A id \in DOMAIN tables.evidence : tables.evidence[id].case_id # case_id
    /\ \A id \in DOMAIN tables.hypotheses : tables.hypotheses[id].case_id # case_id
    /\ \A id \in DOMAIN tables.solutions : tables.solutions[id].case_id # case_id
    /\ \A id \in DOMAIN tables.uploaded_files : tables.uploaded_files[id].case_id # case_id
    /\ \A i \in DOMAIN tables.case_messages : tables.case_messages[i].case_id # case_id
    /\ \A i \in DOMAIN tables.case_status_transitions :
          tables.case_status_transitions[i].case_id # case_id

\* the ids stored by the configured backend in a snapshot
StoredIds(snapshot) ==
    IF storage_type = "postgres" THEN DOMAIN snapshot.db.cases ELSE DOMAIN snapshot.cases

\* what the configured backend holds for one case in a snapshot
StoredCase(snapshot, case_id) ==
    IF storage_type = "postgres" THEN StoredFor(snapshot.db, case_id)
    ELSE IF case_id \in DOMAIN snapshot.cases THEN <<snapshot.cases[case_id]>> ELSE <<>>

----------------------------------------------------------------------------
(* Activity timestamps *)

\* time passes between two calls
Tick ==
    /\ now < MaxClock
    /\ now' = now + 1
    /\ last' = Call("tick", None, Empty, FALSE, Empty)
    /\ UNCHANGED <<storage_type, sessions, db, cases, saved>>

\* an UPDATE that also sets updated_at
hybrid_update_activity_timestamp_and_updated_at(tx, case_id) ==
    IF case_id \in DOMAIN tx.cases
    THEN [tx |-> [tx EXCEPT !.cases[case_id].last_activity_at = now,
                            !.cases[case_id].updated_at = now],
          raised |-> FALSE, ret |-> [ok |-> TRUE]]
    ELSE [tx |-> tx, raised |-> FALSE, ret |-> [ok |-> FALSE]]

\* UPDATE cases SET last_activity_at = NOW() WHERE case_id = :case_id; rowcount > 0
hybrid_update_activity_timestamp(tx, case_id) ==
    IF case_id \in DOMAIN tx.cases
    THEN [tx |-> [tx EXCEPT !.cases[case_id].last_activity_at = now],
          raised |-> FALSE, ret |-> [ok |-> TRUE]]
    ELSE [tx |-> tx, raised |-> FALSE, ret |-> [ok |-> FALSE]]

inmemory_update_activity_timestamp(store, case_id) ==
    IF case_id \in DOMAIN store
    THEN [store |-> [store EXCEPT ![case_id].last_activity_at = now],
          raised |-> FALSE, ret |-> [ok |-> TRUE]]
    ELSE [store |-> store, raised |-> FALSE, ret |-> [ok |-> FALSE]]

Update_activity_timestamp(case_id) ==
    /\ IF storage_type = "postgres"
       THEN LET out == hybrid_update_activity_timestamp(db, case_id)
            IN  /\ db' = get_session(db, out)
                /\ cases' = cases
                /\ last' = Call("update_activity_timestamp", case_id, Empty,
                                out.raised, out.ret)
       ELSE LET out == inmemory_update_activity_timestamp(cases, case_id)
            IN  /\ cases' = out.store
                /\ db' = db
                /\ last' = Call("update_activity_timestamp", case_id, Empty,
                                out.raised, out.ret)
    /\ UNCHANGED <<storage_type, sessions, now, saved>>

----------------------------------------------------------------------------
(* Search: a title or description is one word and a query matches the word    *)
(* equal to it up to letter case, as both the substring test on lowered text  *)
(* and the full-text match do for whole words                                 *)

\* str.lower, on the words that occur in titles, descriptions and queries
lower(s) == IF s = "TITLE_1" THEN "title_1" ELSE s

\* the results search may return: rows whose title matches, filtered, ordered by
\* rank and updated_at, cut by LIMIT, fetched with get; total_count = len(cases)
hybrid_search(tx, query, user_id, organization_id, limit) ==
    LET matching == {id \in DOMAIN tx.cases :
                        /\ lower(tx.cases[id].title) = lower(query)
                        /\ RowMatches(tx.cases[id], user_id, organization_id, None)}
    IN  {LET page == Paginate(order, limit, 0)
         IN  [cases |-> [i \in 1..Len(page) |-> row_to_case(tx, page[i])],
              total_count |-> Len(page)] :
            order \in SortedDesc(matching, [id \in DOMAIN tx.cases |-> tx.cases[id].updated_at])}

\* search whose sort key is the same for every case
inmemory_search_unranked(store, query, user_id, organization_id, limit) ==
    LET filtered == {id \in DOMAIN store :
                        /\ \/ lower(query) = lower(store[id].title)
                           \/ lower(query) = lower(store[id].description)
                        /\ Matches(store[id], user_id, organization_id, None)}
    IN  {LET limited == Paginate(order, limit, 0)
         IN  [cases |-> [i \in 1..Len(limited) |-> store[limited[i]]],
              total_count |-> Len(order)] :
            order \in SortedDesc(filtered, [id \in DOMAIN store |-> 0])}

\* the cases whose title or description holds the query, filtered, sorted by
\* relevance_score descending (100 for the title, 10 for the description; cases
\* of equal score in any order), counted, then cut to limit
inmemory_search(store, query, user_id, organization_id, limit) ==
    LET in_title(id) == lower(query) = lower(store[id].title)
        in_description(id) == lower(query) = lower(store[id].description)
        filtered == {id \in DOMAIN store :
                        /\ in_title(id) \/ in_description(id)
                        /\ Matches(store[id], user_id, organization_id, None)}
        relevance_score == [id \in DOMAIN store |->
                               (IF in_title(id) THEN 100 ELSE 0)
                               + (IF in_description(id) THEN 10 ELSE 0)]
    IN  {LET limited == Paginate(order, limit, 0)
         IN  [cases |-> [i \in 1..Len(limited) |-> store[limited[i]]],
              total_count |-> Len(order)] :
            order \in SortedDesc(filtered, relevance_score)}

Search(query, user_id, organization_id, limit) ==
    /\ \E result \in IF storage_type = "postgres"
                      THEN hybrid_search(db, query, user_id, organization_id, limit)
                      ELSE inmemory_search(cases, query, user_id, organization_id, limit) :
          last' = Call("search", None,
                       [query |-> query, user_id |-> user_id,
                        organization_id |-> organization_id, limit |-> limit], FALSE, result)
    /\ UNCHANGED <<storage_type, sessions, db, cases, now, saved>>

----------------------------------------------------------------------------
(* Cleanup of cases closed long ago; ages and the clock count days *)

\* DELETE FROM cases WHERE case_id IN (SELECT ... WHERE status = 'closed' AND
\* closed_at < NOW() - INTERVAL ':max_age_days days' LIMIT :batch_size). The bind
\* name stands inside a quoted literal: whether the statement runs with the age
\* put in or is rejected depends on the driver, so both outcomes are possible.
\* A NULL closed_at selects no row; LIMIT keeps any batch_size of the rows.
hybrid_cleanup_expired(tx, max_age_days, batch_size) ==
    LET expired == {id \in DOMAIN tx.cases :
                       /\ tx.cases[id].status = "closed"
                       /\ tx.cases[id].closed_at # NullTime
                       /\ tx.cases[id].closed_at < now - max_age_days}
        n == Min(batch_size, Cardinality(expired))
    IN  {[tx |-> tx, raised |-> TRUE, ret |-> [error |-> HybridRepositoryException]]}
        \cup {[tx |-> [t \in DOMAIN tx |->
                          IF t = "cases" THEN Restrict(tx.cases, DOMAIN tx.cases \ D)
                          ELSE IF t \in {"case_messages", "case_status_transitions"}
                          THEN SelectSeq(tx[t], LAMBDA r : r.case_id \notin D)
                          ELSE Restrict(tx[t], {k \in DOMAIN tx[t] : tx[t][k].case_id \notin D})],
                raised |-> FALSE, ret |-> [count |-> n]] :
                  D \in {S \in SUBSET expired : Cardinality(S) = n}}

\* the loop appends an expired case and only then compares len(to_delete) with
\* batch_size; the dict is visited in insertion order, which the model leaves open
inmemory_cleanup_expired(store, max_age_days, batch_size) ==
    LET expired == {id \in DOMAIN store :
                       /\ store[id].status = "closed"
                       /\ store[id].closed_at # NullTime
                       /\ store[id].closed_at < now - max_age_days}
        n == Min(Max(1, batch_size), Cardinality(expired))
    IN  {[store |-> Restrict(store, DOMAIN store \ to_delete), raised |-> FALSE,
          ret |-> [count |-> n]] :
            to_delete \in {S \in SUBSET expired : Cardinality(S) = n}}

Cleanup_expired(max_age_days, batch_size) ==
    /\ IF storage_type = "postgres"
       THEN \E out \in hybrid_cleanup_expired(db, max_age_days, batch_size) :
               /\ db' = get_session(db, out)
               /\ cases' = cases
               /\ saved' = Restrict(saved, DOMAIN saved \cap DOMAIN get_session(db, out).cases)
               /\ last' = Call("cleanup_expired", None,
                               [max_age_days |-> max_age_days, batch_size |-> batch_size],
                               out.raised, out.ret)
       ELSE \E out \in inmemory_cleanup_expired(cases, max_age_days, batch_size) :
               /\ cases' = out.store
               /\ db' = db
               /\ saved' = Restrict(saved, DOMAIN saved \cap DOMAIN out.store)
               /\ last' = Call("cleanup_expired", None,
                               [max_age_days |-> max_age_days, batch_size |-> batch_size],
                               out.raised, out.ret)
    /\ UNCHANGED <<storage_type, sessions, now>>

----------------------------------------------------------------------------
(* Infrastructure failures on the hybrid schema *)

\* a statement of the operation fails (connection lost, constraint violated,
\* stored JSON malformed): the operation's `except Exception` clause raises the
\* module's RepositoryException, and get_session rolls the transaction back
Hybrid_failure(op, case_id) ==
    /\ storage_type = "postgres"
    /\ LET out == [tx |-> db, raised |-> TRUE, ret |-> [error |-> HybridRepositoryException]]
       IN  /\ db' = get_session(db, out)
           /\ last' = Call(op, case_id, [failed |-> TRUE], out.raised, out.ret)
    /\ UNCHANGED <<storage_type, sessions, cases, now, saved>>

----------------------------------------------------------------------------
(* Rows whose embedded columns are NULL, read by the hybrid repository and by *)
(* the single-table PostgreSQLCaseRepository                                  *)

InitDrift ==
    /\ storage_type \in {"postgres", "postgres_single"}
    /\ db = EmptyDb
    /\ cases = Empty
    /\ now = 1
    /\ last = [op |-> "init", case_id |-> None, arg |-> Empty, raised |-> FALSE,
               result |-> Empty, pre |-> [db |-> EmptyDb, cases |-> Empty], prev |-> <<>>]
    /\ saved = Empty
    /\ sessions = Empty

\* a row of cases left by an older schema version or a manual edit: the embedded
\* columns named in nulls are NULL
Drifted_row(case_id, nulls) ==
    /\ db' = [upsert_case_record(db, NewCase(case_id, OwnerOf[case_id])) EXCEPT
                 !.cases[case_id].embedded =
                     [n \in EmbeddedColumns |-> IF n \in nulls THEN SqlNull ELSE @[n]]]
    /\ last' = Call("row", case_id, [nulls |-> nulls], FALSE, Empty)
    /\ UNCHANGED <<storage_type, sessions, cases, now, saved>>

\* the embedded sub-objects PostgreSQLCaseRepository._row_to_case builds: progress
\* is parsed with json.loads whatever the column holds, and json.loads(None) raises
\* TypeError; consulting, documentation and the optional columns are tested first
single_row_to_case(row) ==
    IF row.embedded["progress"] = SqlNull
    THEN [raised |-> TRUE, ret |-> [error |-> "TypeError"]]
    ELSE [raised |-> FALSE,
          ret |-> [found |-> TRUE,
                   case |-> [embedded |->
                       [n \in EmbeddedColumns |->
                           IF row.embedded[n] # SqlNull THEN json_loads(row.embedded[n])
                           ELSE IF n \in RequiredEmbedded THEN DefaultDoc(n) ELSE None]]]]

\* PostgreSQLCaseRepository.get: SELECT * FROM cases WHERE case_id = :case_id
Single_get(case_id) ==
    /\ storage_type = "postgres_single"
    /\ LET out == IF case_id \in DOMAIN db.cases THEN single_row_to_case(db.cases[case_id])
                  ELSE [raised |-> FALSE, ret |-> [found |-> FALSE]]
       IN  last' = Call("get", case_id, Empty, out.raised, out.ret)
    /\ UNCHANGED <<storage_type, sessions, db, cases, now, saved>>

SpecDrift ==
    /\ InitDrift
    /\ [][
        \/ \E nulls \in {{}, RequiredEmbedded, OptionalEmbedded, EmbeddedColumns}
                          \cup {{n} : n \in EmbeddedColumns} : Drifted_row("case_1", nulls)
        \/ \E id \in CaseIds : Hybrid_get(id)
        \/ \E id \in CaseIds : Single_get(id)
       ]_vars

----------------------------------------------------------------------------
(* SpecBoth: the same sequence of repository calls applied to the hybrid      *)
(* schema and to the in-memory store, both empty at first                     *)

InitBoth ==
    /\ storage_type = "both"
    /\ db = EmptyDb
    /\ cases = Empty
    /\ now = 1
    /\ last = [op |-> "init", case_id |-> None, arg |-> Empty, raised |-> FALSE,
               result |-> Empty, pre |-> [db |-> EmptyDb, cases |-> Empty], prev |-> <<>>]
    /\ saved = Empty
    /\ sessions = Empty

\* one call made on both backends; the result keeps, per backend, whether the
\* call raised and whether what it returned is truthy
Both(op, case, message_dict) ==
    LET id == case.case_id
        h == CASE op = "save" -> hybrid_save(db, case, "none")
               [] op = "get" -> [tx |-> db, raised |-> FALSE,
                                 ret |-> [ok |-> hybrid_get(db, id).found]]
               [] op = "delete" -> hybrid_delete(db, id)
               [] op = "add_message" -> hybrid_add_message(db, id, message_dict)
               [] op = "get_messages" ->
                      [tx |-> db, raised |-> FALSE,
                       ret |-> [ok |-> hybrid_get_messages(db, id, MaxMessages, 0) # <<>>]]
               [] op = "update_activity_timestamp" -> hybrid_update_activity_timestamp(db, id)
               [] op = "get_analytics" ->
                      [tx |-> db, raised |-> FALSE,
                       ret |-> [ok |-> ~hybrid_get_analytics(db, id).empty]]
        m == CASE op = "save" -> inmemory_save(cases, case)
               [] op = "get" -> [store |-> cases, raised |-> FALSE,
                                 ret |-> [ok |-> inmemory_get(cases, id).found]]
               [] op = "delete" -> inmemory_delete(cases, id)
               [] op = "add_message" -> inmemory_add_message(cases, id, message_dict)
               [] op = "get_messages" ->
                      [store |-> cases, raised |-> FALSE,
                       ret |-> [ok |-> inmemory_get_messages(cases, id, MaxMessages, 0) # <<>>]]
               [] op = "update_activity_timestamp" ->
                      inmemory_update_activity_timestamp(cases, id)
               [] op = "get_analytics" ->
                      [store |-> cases, raised |-> FALSE,
                       ret |-> [ok |-> ~inmemory_get_analytics(cases, id).empty]]
    IN  /\ storage_type = "both"
        /\ op = "add_message" =>
              /\ Len(SeqRowsOf(db.case_messages, id)) < MaxMessages
              /\ id \in DOMAIN cases => Len(cases[id].messages) < MaxMessages
              /\ message_dict.message_id \in FreshMessageIds
        /\ db' = get_session(db, h)
        /\ cases' = m.store
        /\ last' = Call(op, id, [case |-> case, message |-> message_dict], FALSE,
                        [hybrid |-> [raised |-> h.raised,
                                     ok |-> ~h.raised /\ (op = "save" \/ h.ret.ok)],
                         inmemory |-> [raised |-> m.raised,
                                       ok |-> ~m.raised /\ (op = "save" \/ m.ret.ok)]])
        /\ UNCHANGED <<storage_type, sessions, now, saved>>

SpecBoth ==
    /\ InitBoth
    /\ [][
        \E op \in {"save", "get", "delete", "add_message", "get_messages",
                   "update_activity_timestamp", "get_analytics"}, mid \in MessageIds :
            Both(op, NewCase("case_1", "user_a"), Message(mid))
       ]_vars

----------------------------------------------------------------------------
(* CaseManager: each operation reads the case through the repository, checks  *)
(* the owner, changes the aggregate and saves it                              *)

\* get_case: None when the case is missing, or when a user_id is given and is
\* not the owner's
manager_get_case(got, user_id) ==
    IF ~got.found THEN [found |-> FALSE]
    ELSE IF user_id # None /\ got.case.user_id # user_id THEN [found |-> FALSE]
    ELSE got

\* an operation that loads the case and never compares its owner
manager_owned_unchecked(got, user_id) == got

\* `if not case or case.user_id != user_id: return None` of the other operations
manager_owned(got, user_id) ==
    IF ~got.found THEN [found |-> FALSE]
    ELSE IF got.case.user_id # user_id THEN [found |-> FALSE]
    ELSE got

\* repository.save(case) at the end of an operation, on the configured backend
ManagerSave(op, case_id, arg, case) ==
    /\ IF storage_type = "postgres"
       THEN LET out == hybrid_save(db, case, "none")
            IN  /\ db' = get_session(db, out)
                /\ cases' = cases
                /\ last' = Call(op, case_id, arg, out.raised,
                                [found |-> TRUE, case |-> out.ret.case])
       ELSE LET out == inmemory_save(cases, case)
            IN  /\ cases' = out.store
                /\ db' = db
                /\ last' = Call(op, case_id, arg, out.raised,
                                [found |-> TRUE, case |-> out.ret.case])
    /\ saved' = Record(saved, case)
    /\ UNCHANGED <<storage_type, sessions, now>>

\* an operation that returns without writing
ManagerReturn(op, case_id, arg, result) ==
    /\ last' = Call(op, case_id, arg, FALSE, result)
    /\ UNCHANGED <<storage_type, sessions, db, cases, now, saved>>

Manager_get_case(case_id, user_id) ==
    ManagerReturn("get_case", case_id, [user_id |-> user_id],
                  manager_get_case(Get(case_id), user_id))

Manager_update_case(case_id, user_id, request) ==
    LET got == manager_get_case(Get(case_id), user_id)
        arg == [user_id |-> user_id, request |-> request]
    IN  IF got.found
        THEN LET c1 == IF request.title # None
                       THEN [got.case EXCEPT !.title = request.title] ELSE got.case
                 c2 == IF request.status = None THEN c1
                       ELSE IF request.status \in {"resolved", "closed"}
                       THEN [c1 EXCEPT !.status = request.status,
                                       !.resolved_at = now, !.closed_at = now]
                       ELSE [c1 EXCEPT !.status = request.status]
             IN  ManagerSave("update_case", case_id, arg,
                             [c2 EXCEPT !.updated_at = now, !.last_activity_at = now])
        ELSE ManagerReturn("update_case", case_id, arg, [found |-> FALSE])

Manager_close_case(case_id, user_id) ==
    LET got == manager_owned(Get(case_id), user_id)
        arg == [user_id |-> user_id]
    IN  IF got.found
        THEN ManagerSave("close_case", case_id, arg,
                         [got.case EXCEPT !.status = "closed", !.updated_at = now])
        ELSE ManagerReturn("close_case", case_id, arg, [found |-> FALSE])

Manager_delete_case(case_id, user_id) ==
    LET got == manager_get_case(Get(case_id), user_id)
        arg == [user_id |-> user_id]
    IN  IF ~got.found
        THEN ManagerReturn("delete_case", case_id, arg, [ok |-> FALSE])
        ELSE /\ IF storage_type = "postgres"
                THEN LET out == hybrid_delete(db, case_id)
                     IN  /\ db' = get_session(db, out)
                         /\ cases' = cases
                         /\ last' = Call("delete_case", case_id, arg, out.raised, out.ret)
                ELSE LET out == inmemory_delete(cases, case_id)
                     IN  /\ cases' = out.store
                         /\ db' = db
                         /\ last' = Call("delete_case", case_id, arg, out.raised, out.ret)
             /\ saved' = Restrict(saved, DOMAIN saved \ {case_id})
             /\ UNCHANGED <<storage_type, sessions, now>>

Manager_add_evidence(case_id, user_id, evidence_id) ==
    LET got == manager_owned(Get(case_id), user_id)
        arg == [user_id |-> user_id, evidence_id |-> evidence_id]
    IN  IF got.found
        THEN ManagerSave("add_evidence", case_id, arg,
                 [got.case EXCEPT !.evidence =
                     [id \in DOMAIN @ \cup {evidence_id} |->
                         IF id = evidence_id THEN [Evidence("s1") EXCEPT !.timestamp = now]
                         ELSE @[id]]])
        ELSE ManagerReturn("add_evidence", case_id, arg, [found |-> FALSE])

Manager_get_evidence(case_id, evidence_id, user_id) ==
    LET got == manager_owned(Get(case_id), user_id)
        arg == [user_id |-> user_id, evidence_id |-> evidence_id]
    IN  ManagerReturn("get_evidence", case_id, arg,
            IF got.found /\ evidence_id \in DOMAIN got.case.evidence
            THEN [found |-> TRUE, evidence |-> got.case.evidence[evidence_id]]
            ELSE [found |-> FALSE])

Manager_get_uploaded_files(case_id, user_id) ==
    LET got == manager_owned(Get(case_id), user_id)
    IN  ManagerReturn("get_uploaded_files", case_id, [user_id |-> user_id],
            IF got.found THEN [found |-> TRUE, uploaded_files |-> got.case.uploaded_files]
            ELSE [found |-> FALSE])

Manager_add_hypothesis(case_id, user_id, hypothesis_id, confidence) ==
    LET got == manager_owned(Get(case_id), user_id)
        arg == [user_id |-> user_id, hypothesis_id |-> hypothesis_id]
    IN  IF got.found
        THEN ManagerSave("add_hypothesis", case_id, arg,
                 [got.case EXCEPT !.hypotheses =
                     [id \in DOMAIN @ \cup {hypothesis_id} |->
                         IF id = hypothesis_id THEN Hypothesis("proposed", confidence)
                         ELSE @[id]]])
        ELSE ManagerReturn("add_hypothesis", case_id, arg, [found |-> FALSE])

Manager_update_hypothesis(case_id, hypothesis_id, user_id, updates) ==
    LET got == manager_owned(Get(case_id), user_id)
        arg == [user_id |-> user_id, hypothesis_id |-> hypothesis_id, updates |-> updates]
    IN  IF got.found /\ hypothesis_id \in DOMAIN got.case.hypotheses
        THEN ManagerSave("update_hypothesis", case_id, arg,
                 [got.case EXCEPT !.hypotheses[hypothesis_id] =
                     [f \in DOMAIN @ |-> IF f \in DOMAIN updates THEN updates[f] ELSE @[f]]])
        ELSE ManagerReturn("update_hypothesis", case_id, arg, [found |-> FALSE])

\* list_cases hands the repository `status.value`, the string of the enum member.
\* The hybrid list reads `.value` of the status it is given, which a string does
\* not have, inside its try block; the in-memory list compares the stored status
\* with it, and a member of a str-based enum equals its string.
Manager_list_cases(user_id, status, limit, offset) ==
    IF storage_type = "postgres"
    THEN IF status = None
         THEN Hybrid_list(user_id, None, None, limit, offset)
         ELSE /\ last' = Call("list", None,
                               [user_id |-> user_id, organization_id |-> None,
                                status |-> status, limit |-> limit, offset |-> offset],
                               TRUE, [error |-> HybridRepositoryException])
              /\ UNCHANGED <<storage_type, sessions, db, cases, now, saved>>
    ELSE InMemory_list(user_id, None, status, limit, offset)

----------------------------------------------------------------------------
(* create_case: the title is generated when the request has none, priority    *)
(* and category are copied into metadata through `.value`, and the new case   *)
(* is saved under a generated id                                              *)

Manager_create_case(case_id, user_id, request) ==
    LET arg == [user_id |-> user_id, request |-> request]
        title == IF request.title = None THEN "Case-MMDD-1" ELSE request.title
        case == [NewCase(case_id, user_id) EXCEPT
                    !.title = title,
                    !.description = IF request.description = None THEN ""
                                    ELSE request.description,
                    !.created_at = now, !.updated_at = now, !.last_activity_at = now]
    IN  /\ case_id \notin StoredIds(Snapshot)
        /\ IF request.priority = None
           THEN \* request.priority.value on None
                /\ last' = Call("create_case", case_id, arg, TRUE,
                                [error |-> [name |-> "AttributeError", module |-> "builtins"]])
                /\ UNCHANGED <<storage_type, sessions, db, cases, now, saved>>
           ELSE ManagerSave("create_case", case_id, arg, case)

----------------------------------------------------------------------------
(* SpecManager: user_b's case is stored with a status that agrees with its    *)
(* history, then read and changed through CaseManager by either user          *)

\* a case enters the store through the repository, under an id not stored yet
Store_case(c) ==
    /\ c.case_id \notin StoredIds(Snapshot)
    /\ \/ Hybrid_save(c, "none")
       \/ InMemory_save(c)

SpecManager ==
    /\ Init
    /\ [][
        \/ Store_case(NewCase("case_2", "user_b"))
        \/ Store_case([NewCase("case_2", "user_b") EXCEPT
                          !.status = "investigating",
                          !.status_history = <<Transition("consulting", "investigating")>>,
                          !.evidence = [e \in {"ev_1"} |-> Evidence("s1")],
                          !.hypotheses = [h \in HypothesisIds |-> Hypothesis("proposed", 4)],
                          !.uploaded_files = [f \in FileIds |-> UploadedFile(10)]])
        \/ \E id \in {"case_2"}, u \in UserIds \cup {None} : Manager_get_case(id, u)
        \/ \E id \in {"case_2"}, u \in UserIds,
              r \in {[title |-> "title_2", status |-> None], [title |-> None, status |-> "resolved"]} :
              Manager_update_case(id, u, r)
        \/ \E id \in {"case_2"}, u \in UserIds : Manager_close_case(id, u)
        \/ \E id \in {"case_2"}, u \in UserIds : Manager_delete_case(id, u)
        \/ \E id \in {"case_2"}, u \in UserIds : Manager_add_evidence(id, u, "ev_2")
        \/ \E id \in {"case_2"}, u \in UserIds : Manager_get_evidence(id, "ev_1", u)
        \/ \E id \in {"case_2"}, u \in UserIds : Manager_get_uploaded_files(id, u)
        \/ \E id \in {"case_2"}, u \in UserIds : Manager_add_hypothesis(id, u, "hyp_1", 4)
        \/ \E id \in {"case_2"}, u \in UserIds :
              Manager_update_hypothesis(id, "hyp_1", u, [status |-> "validated", confidence |-> 9])
        \/ \E u \in UserIds : Manager_list_cases(u, None, MaxLimit, 0)
       ]_vars

----------------------------------------------------------------------------
(* SpecActivity: cases are saved and touched while time passes, and listed    *)

SpecActivity ==
    /\ Init
    /\ [][
        \/ Store_case([NewCase("case_1", "user_a") EXCEPT
                          !.evidence = [e \in {"ev_1"} |-> Evidence("s1")],
                          !.updated_at = now, !.last_activity_at = now])
        \/ Store_case([NewCase("case_2", "user_b") EXCEPT
                          !.updated_at = now, !.last_activity_at = now])
        \/ \E id \in ListCaseIds : Update_activity_timestamp(id)
        \/ Hybrid_list(None, None, None, MaxLimit, 0)
        \/ InMemory_list(None, None, None, MaxLimit, 0)
        \/ Tick
       ]_vars

----------------------------------------------------------------------------
(* SpecSearch: cases with one of two titles are saved, deleted and searched   *)

SpecSearch ==
    /\ Init
    /\ [][
        \/ \E id \in ListCaseIds, t \in {"title_1", "title_2"} :
              \/ Hybrid_save([NewCase(id, OwnerOf[id]) EXCEPT !.title = t], "none")
              \/ InMemory_save([NewCase(id, OwnerOf[id]) EXCEPT !.title = t])
        \/ \E id \in ListCaseIds : Hybrid_delete(id) \/ InMemory_delete(id)
        \/ \E u \in {None, "user_a"}, limit \in 1..MaxLimit : Search("title_1", u, None, limit)
       ]_vars

----------------------------------------------------------------------------
(* SpecCleanup: cases are stored open or closed, closed through CaseManager,  *)
(* and cleaned up as the days pass                                            *)

SpecCleanup ==
    /\ Init
    /\ [][
        \/ \E id \in CaseIds :
              \/ Store_case(NewCase(id, OwnerOf[id]))
              \/ Store_case([NewCase(id, OwnerOf[id]) EXCEPT !.status = "closed", !.closed_at = now])
        \/ \E id \in CaseIds : Manager_update_case(id, OwnerOf[id], [title |-> None, status |-> "closed"])
        \/ \E id \in CaseIds : Manager_close_case(id, OwnerOf[id])
        \/ \E batch_size \in 0..MaxBatch : Cleanup_expired(1, batch_size)
        \/ Tick
       ]_vars

----------------------------------------------------------------------------
(* SpecFailure: hybrid operations during which a statement may fail           *)

SpecFailure ==
    /\ InitHybrid
    /\ [][
        \/ \E c \in AtomicCases, f \in FailPoints : Hybrid_save(c, f)
        \/ \E op \in {"save", "get", "list", "delete", "search", "add_message", "get_messages",
                      "update_activity_timestamp", "get_analytics", "cleanup_expired"},
              id \in CaseIds : Hybrid_failure(op, id)
        \/ Hybrid_get("case_1")
        \/ Hybrid_delete("case_1")
       ]_vars

----------------------------------------------------------------------------
(* SpecCreate: cases are created through CaseManager, read back and deleted   *)

SpecCreate ==
    /\ Init
    /\ [][
        \/ \E id \in CaseIds, u \in UserIds,
              r \in {[title |-> None, description |-> None, priority |-> None],
                     [title |-> "title_2", description |-> None, priority |-> None],
                     [title |-> None, description |-> "disk full", priority |-> None],
                     [title |-> None, description |-> None, priority |-> "medium"],
                     [title |-> "title_2", description |-> "disk full",
                      priority |-> "medium"]} :
              Manager_create_case(id, u, r)
        \/ \E id \in CaseIds, u \in UserIds : Manager_get_case(id, u)
        \/ \E id \in CaseIds, u \in UserIds : Manager_delete_case(id, u)
       ]_vars

----------------------------------------------------------------------------
(* SpecOwner: either user's aggregate is saved under either case id, through  *)
(* the repository and through CaseManager                                     *)

SpecOwner ==
    /\ Init
    /\ [][
        \/ \E id \in CaseIds, u \in UserIds : Hybrid_save(NewCase(id, u), "none")
        \/ \E id \in CaseIds, u \in UserIds : InMemory_save(NewCase(id, u))
        \/ \E id \in CaseIds, u \in UserIds :
              Manager_create_case(id, u, [title |-> None, description |-> None,
                                          priority |-> "medium"])
        \/ \E id \in CaseIds, u \in UserIds :
              Manager_update_case(id, u, [title |-> "title_2", status |-> None])
        \/ \E id \in CaseIds, u \in UserIds : Manager_delete_case(id, u)
        \/ \E id \in CaseIds, u \in UserIds \cup {None} : Manager_get_case(id, u)
       ]_vars

----------------------------------------------------------------------------
(* SpecAnalytics: one case on the hybrid schema with any of its child rows    *)
(* and messages, and its analytics                                            *)

SpecAnalytics ==
    /\ InitHybrid
    /\ [][
        \/ \E ev \in Collections(EvidenceIds, {Evidence("s1")}),
              hy \in Collections(HypothesisIds, {Hypothesis("proposed", 4)}),
              fi \in Collections(FileIds, {UploadedFile(10)}) :
              Hybrid_save([NewCase("case_1", "user_a") EXCEPT
                              !.evidence = ev, !.hypotheses = hy,
                              !.solutions = [s \in {id \in SolutionIds : hy # Empty} |->
                                                Solution("proposed")],
                              !.uploaded_files = fi], "none")
        \/ Hybrid_add_message("case_1", Message("msg_1"))
        \/ Hybrid_get_analytics("case_1")
        \/ Hybrid_delete("case_1")
       ]_vars

----------------------------------------------------------------------------
(* SpecResave: one case on the hybrid schema, saved again with changed field  *)
(* values in the items it already stores                                      *)

SpecResave ==
    /\ InitHybrid
    /\ [][
        \/ \E e \in {Evidence("s1"), Evidence("s2"),
                     [Evidence("s1") EXCEPT !.filename = "b.log", !.file_size = 20,
                                            !.timestamp = 2]},
              so \in {Solution("proposed"), Solution("implemented")},
              fi \in {UploadedFile(10), UploadedFile(20),
                      [UploadedFile(10) EXCEPT !.uploaded_at = 2]} :
              Hybrid_save([NewCase("case_1", "user_a") EXCEPT
                              !.evidence = [id \in {"ev_1"} |-> e],
                              !.solutions = [id \in SolutionIds |-> so],
                              !.uploaded_files = [id \in FileIds |-> fi]], "none")
        \/ Hybrid_get("case_1")
        \/ Hybrid_delete("case_1")
       ]_vars

----------------------------------------------------------------------------
(* SpecIsolation: two cases of two users on the hybrid schema whose           *)
(* aggregates use the same child ids with different field values              *)

SpecIsolation ==
    /\ InitHybrid
    /\ [][
        \/ \E ev \in Collections({"ev_1"}, {Evidence("s1")}),
              hy \in Collections(HypothesisIds, {Hypothesis("proposed", 4)}) :
              Hybrid_save([NewCase("case_1", "user_a") EXCEPT
                              !.evidence = ev, !.hypotheses = hy], "none")
        \/ \E ev \in Collections({"ev_1"}, {Evidence("s2")}),
              hy \in Collections(HypothesisIds, {Hypothesis("proposed", 9)}) :
              Hybrid_save([NewCase("case_2", "user_b") EXCEPT
                              !.evidence = ev, !.hypotheses = hy], "none")
        \/ \E id \in CaseIds : Hybrid_get(id)
        \/ \E id \in CaseIds : Hybrid_delete(id)
       ]_vars

----------------------------------------------------------------------------
(* SpecMessages: one case is stored once without messages, then it and an     *)
(* unknown case id receive messages and activity updates while time passes    *)

SpecMessages ==
    /\ Init
    /\ [][
        \/ Store_case(NewCase("case_1", "user_a"))
        \/ \E id \in CaseIds, m \in MessageIds : InMemory_add_message(id, Message(m))
        \/ \E id \in CaseIds, m \in MessageIds : Hybrid_add_message(id, Message(m))
        \/ \E id \in CaseIds : Update_activity_timestamp(id)
        \/ \E id \in CaseIds : InMemory_get_messages(id, MaxMessages, 0)
        \/ Tick
       ]_vars

----------------------------------------------------------------------------
(* SpecHeld: callers keep the Case object they passed to save or received     *)
(* from get, and assign to its title without saving                           *)

\* The in-memory repository stores the caller's object itself and get returns
\* that same object: an assignment to a field of the held object is an
\* assignment to the stored aggregate.  The hybrid repository holds rows, which
\* the assignment does not reach.
Caller_mutates(case_id, title) ==
    /\ last.op \in {"save", "get"}
    /\ last.case_id = case_id
    /\ ~last.raised
    /\ last.op = "get" => last.result.found
    /\ cases' = IF storage_type = "inmemory"
                THEN [cases EXCEPT ![case_id].title = title] ELSE cases
    /\ last' = Call("mutate", case_id, [title |-> title], FALSE, Empty)
    /\ UNCHANGED <<storage_type, sessions, db, now, saved>>

SpecHeld ==
    /\ Init
    /\ [][
        \/ \E id \in CaseIds, t \in {"title_1", "title_2"} :
              Hybrid_save([NewCase(id, OwnerOf[id]) EXCEPT !.title = t], "none")
        \/ \E id \in CaseIds, t \in {"title_1", "title_2"} :
              InMemory_save([NewCase(id, OwnerOf[id]) EXCEPT !.title = t])
        \/ \E id \in CaseIds, t \in {"title_1", "title_2", "title_3"} : Caller_mutates(id, t)
        \/ \E id \in CaseIds : Hybrid_get(id)
        \/ \E id \in CaseIds : InMemory_get(id)
       ]_vars

----------------------------------------------------------------------------
(* SpecRank: cases that hold the query word in the title, in the description, *)
(* in both or in neither are stored and searched                              *)

SpecRank ==
    /\ Init
    /\ [][
        \/ \E t \in {[title |-> "TITLE_1", description |-> ""],
                     [title |-> "title_2", description |-> "title_1"]} :
              Store_case([NewCase("case_1", "user_a") EXCEPT
                             !.title = t.title, !.description = t.description])
        \/ \E t \in {[title |-> "title_2", description |-> "TITLE_1"],
                     [title |-> "title_1", description |-> "title_1"]} :
              Store_case([NewCase("case_2", "user_b") EXCEPT
                             !.title = t.title, !.description = t.description])
        \/ \E t \in {[title |-> "title_1", description |-> ""],
                     [title |-> "title_2", description |-> ""]} :
              Store_case([NewCase("case_3", "user_a") EXCEPT
                             !.title = t.title, !.description = t.description])
        \/ \E q \in {"title_1", "TITLE_1"}, u \in {None, "user_a"}, limit \in 1..MaxLimit :
              Search(q, u, None, limit)
       ]_vars

----------------------------------------------------------------------------
(* SpecManagerList: the cases of two users are stored in two statuses and     *)
(* listed through CaseManager, with and without a status                      *)

SpecManagerList ==
    /\ Init
    /\ [][
        \/ \E c \in ListCases : Hybrid_save(c, "none")
        \/ \E c \in ListCases : InMemory_save(c)
        \/ \E u \in UserIds, st \in {None, "consulting"}, limit \in 1..MaxLimit, offset \in {0, 1} :
              Manager_list_cases(u, st, limit, offset)
       ]_vars

----------------------------------------------------------------------------
(* SpecConcurrent: saves of one case run in database sessions of their own,   *)
(* statement by statement, and commit                                         *)

\* A save call enters PostgreSQLHybridCaseRepository.save in its own session; no
\* statement has run yet.  Sessions in flight at the same time are marked.
Session_begin(s, case) ==
    /\ storage_type = "postgres"
    /\ s \notin DOMAIN sessions
    /\ sessions' = [t \in DOMAIN sessions \cup {s} |->
                       IF t = s
                       THEN [case |-> case, done |-> 0, base |-> EmptyDb,
                             overlapped |-> DOMAIN sessions # {}]
                       ELSE [sessions[t] EXCEPT !.overlapped = TRUE]]
    /\ UNCHANGED <<storage_type, db, cases, now, last, saved>>

\* The session runs its next statement.  The first statement, the upsert of the
\* root row, takes the lock of that row until the session ends: the first
\* statement of another save of the same case_id waits for it, then runs on
\* what is committed by then.  The later statements run on the committed
\* tables and the session's own writes.
Session_step(s) ==
    /\ s \in DOMAIN sessions
    /\ sessions[s].done < Cardinality(SaveStatements)
    /\ sessions[s].done = 0 =>
           \A t \in DOMAIN sessions \ {s} :
               sessions[t].case.case_id = sessions[s].case.case_id => sessions[t].done = 0
    /\ sessions' = [sessions EXCEPT ![s].done = @ + 1,
                                    ![s].base = IF sessions[s].done = 0 THEN db ELSE @]
    /\ UNCHANGED <<storage_type, db, cases, now, last, saved>>

\* save returned after its flush and get_session commits the session's writes
Session_commit(s) ==
    /\ s \in DOMAIN sessions
    /\ sessions[s].done = Cardinality(SaveStatements)
    /\ LET out == hybrid_save(sessions[s].base, sessions[s].case, "none")
       IN  /\ db' = get_session(db, out)
           /\ last' = Call("save", sessions[s].case.case_id,
                           [case |-> sessions[s].case, attempted |-> out.tx,
                            overlapped |-> sessions[s].overlapped], FALSE, out.ret)
           /\ saved' = Record(saved, sessions[s].case)
    /\ sessions' = Restrict(sessions, DOMAIN sessions \ {s})
    /\ UNCHANGED <<storage_type, cases, now>>

SpecConcurrent ==
    /\ InitHybrid
    /\ [][
        \/ \E s \in {"s1", "s2"},
              c \in {[NewCase("case_1", "user_a") EXCEPT
                         !.evidence = [id \in {"ev_1"} |-> Evidence("s1")]],
                     [NewCase("case_1", "user_a") EXCEPT
                         !.title = "title_2",
                         !.evidence = [id \in {"ev_1"} |->
                                          [Evidence("s2") EXCEPT !.filename = "b.log"]]],
                     [NewCase("case_1", "user_a") EXCEPT
                         !.evidence = [id \in {"ev_2"} |-> Evidence("s1")]]} :
              Session_begin(s, c)
        \/ \E s \in {"s1", "s2"} : Session_step(s)
        \/ \E s \in {"s1", "s2"} : Session_commit(s)
        \/ Hybrid_get("case_1")
       ]_vars

----------------------------------------------------------------------------
(* Claims *)

ChildCollections == {"evidence", "hypotheses", "solutions", "uploaded_files"}

\* C1 - differential upsert: when a save with collection C1 is followed by a save
\* of the same case_id with a proper subset C2 of C1 (the empty one included), get
\* returns exactly the items of C2 and no row of a removed id stays with the case.
C1_DifferentialUpsert ==
    (last.op = "save" /\ ~last.raised /\ last.prev # <<>>) =>
        \A coll \in ChildCollections :
            LET C1 == DOMAIN last.prev[1][coll]
                C2 == DOMAIN last.arg.case[coll]
            IN  (C2 \subseteq C1 /\ C2 # C1) =>
                    /\ Get(last.case_id).found
                    /\ DOMAIN Get(last.case_id).case[coll] = C2
                    /\ RowsOf(db[coll], last.case_id) \cap (C1 \ C2) = {}

\* C2 - idempotent re-save: a save that directly repeats a save of the same,
\* unchanged aggregate leaves, for that case_id, as many rows in evidence,
\* hypotheses, solutions, uploaded_files and case_status_transitions as before it.
C2_IdempotentResave ==
    (storage_type = "postgres" /\ last.op = "save" /\ ~last.raised
        /\ last.prev = <<last.arg.case>>) =>
        /\ \A coll \in ChildCollections :
              Cardinality(RowsOf(db[coll], last.case_id))
                  = Cardinality(RowsOf(last.pre.db[coll], last.case_id))
        /\ Len(SeqRowsOf(db.case_status_transitions, last.case_id))
              = Len(SeqRowsOf(last.pre.db.case_status_transitions, last.case_id))

\* C3 - round trip: get after save(c) returns an aggregate equal to c in every
\* field (c as save returned it, that is with the updated_at save has set).
C3_RoundTrip ==
    (last.op = "save" /\ ~last.raised) =>
        Get(last.case_id) = [found |-> TRUE, case |-> last.result.case]

\* C4 - hypothesis update in place: when a save with hypothesis hyp_1 {proposed, 0.4}
\* is followed by a save with hyp_1 {validated, 0.9}, get returns one hypothesis
\* hyp_1 and it carries the status validated and the confidence 0.9.
C4_HypothesisUpdate ==
    (last.op = "save" /\ ~last.raised /\ last.prev # <<>>
        /\ "hyp_1" \in DOMAIN last.prev[1].hypotheses
        /\ "hyp_1" \in DOMAIN last.arg.case.hypotheses
        /\ last.prev[1].hypotheses["hyp_1"] = Hypothesis("proposed", 4)
        /\ last.arg.case.hypotheses["hyp_1"] = Hypothesis("validated", 9)) =>
        /\ Get(last.case_id).found
        /\ DOMAIN Get(last.case_id).case.hypotheses = {"hyp_1"}
        /\ Get(last.case_id).case.hypotheses["hyp_1"].status = "validated"
        /\ Get(last.case_id).case.hypotheses["hyp_1"].confidence = 9

\* C5 - append-only history: over a save of a stored case_id, on either backend,
\* every status transition that get returned before and every message that
\* get_messages returned before is still returned after, in the same order.
C5_AppendOnlyHistory ==
    (last.op = "save" /\ ~last.raised /\ last.case_id \in StoredIds(last.pre)) =>
        /\ Get(last.case_id).found
        /\ IsSubSeq(GetIn(last.pre, last.case_id).case.status_history,
                    Get(last.case_id).case.status_history)
        /\ IsSubSeq(GetMessagesIn(last.pre, last.case_id), GetMessages(last.case_id))

MatchingStored(snapshot, filters) ==
    {id \in StoredIds(snapshot) :
        Matches(GetIn(snapshot, id).case, filters.user_id, filters.organization_id,
                filters.status)}

\* C7 - pagination: with N stored cases matching the filters, list(limit = K,
\* offset = O) returns min(K, max(0, N - O)) cases and total_count = N.
C7_Pagination ==
    last.op = "list" =>
        LET N == Cardinality(MatchingStored(last.pre, last.arg))
        IN  /\ ~last.raised
            /\ Len(last.result.cases) = Min(last.arg.limit, Max(0, N - last.arg.offset))
            /\ last.result.total_count = N

C7_Witness ==
    /\ last.op = "list"
    /\ last.arg.offset > 0
    /\ Len(last.result.cases) > 0
    /\ Len(last.result.cases) < last.arg.limit
    /\ last.result.total_count < Cardinality(StoredIds(last.pre))

\* C8 - save atomicity: when a statement of a hybrid save raised, the committed
\* tables are, after the session scope ended, exactly as before the save.
C8_SaveAtomicity ==
    (last.op = "save" /\ last.raised) => db = last.pre.db

\* a save that raised at its flush after it had deleted and inserted evidence rows
\* and appended a transition row for a case stored before
C8_Witness ==
    /\ last.op = "save" /\ last.raised
    /\ last.case_id \in DOMAIN last.pre.db.cases
    /\ DOMAIN last.arg.attempted.evidence # DOMAIN last.pre.db.evidence
    /\ DOMAIN last.pre.db.evidence # {}
    /\ last.arg.attempted.case_status_transitions # last.pre.db.case_status_transitions

\* C9 - delete returns True exactly when the case was stored; then that case is
\* gone and every other case is as before; otherwise it returns False, raises
\* nothing and changes nothing.
C9_DeleteResult ==
    last.op = "delete" =>
        LET existed == last.case_id \in StoredIds(last.pre)
        IN  /\ ~last.raised
            /\ last.result.ok = existed
            /\ last.case_id \notin StoredIds(Snapshot)
            /\ \A other \in (CaseIds \cup ListCaseIds) \ {last.case_id} :
                  StoredCase(Snapshot, other) = StoredCase(last.pre, other)
            /\ ~existed => Snapshot = last.pre

C9_Witness ==
    /\ last.op = "delete" /\ last.result.ok
    /\ \E other \in StoredIds(Snapshot) : other # last.case_id

C11_StatusMatchesHistory ==
    LET history(snapshot, id) ==
            IF storage_type = "postgres"
            THEN SeqRowsOf(snapshot.db.case_status_transitions, id)
            ELSE IF id \in DOMAIN snapshot.cases THEN snapshot.cases[id].status_history
            ELSE <<>>
    IN  /\ \A id \in StoredIds(Snapshot) :
              LET h == history(Snapshot, id)
              IN  h # <<>> => Get(id).case.status = h[Len(h)].to_status
        /\ last.op \in {"update_case", "close_case"} /\ last.case_id \in StoredIds(Snapshot)
              => IsSubSeq(history(last.pre, last.case_id), history(Snapshot, last.case_id))

\* C12: every repository call of a sequence applied to both backends from the
\* empty store raises on both or on neither, and returns a truthy result on
\* both or on neither, calls addressed to an unknown case_id included.
C12_BackendEquivalence ==
    "hybrid" \in DOMAIN last.result => last.result.hybrid = last.result.inmemory

\* C13: list returns the cases by most recent activity first: of two returned
\* cases that both carry an activity timestamp, the one listed first has the
\* later or the same last_activity_at; so a case that update_activity_timestamp
\* just touched comes before every case with older activity.
C13_ListByActivity ==
    last.op = "list" =>
        \A i, j \in DOMAIN last.result.cases :
            /\ i < j
            /\ last.result.cases[i].last_activity_at # NullTime
            /\ last.result.cases[j].last_activity_at # NullTime
            => last.result.cases[i].last_activity_at >= last.result.cases[j].last_activity_at

\* C14: search returns only cases that match the query and the filters, at most
\* limit of them, and a total_count equal to the number of stored cases that
\* match the query and the filters, whatever the limit.
C14_SearchResult ==
    last.op = "search" =>
        LET matching == {id \in MatchingStored(last.pre,
                                   [user_id |-> last.arg.user_id,
                                    organization_id |-> last.arg.organization_id,
                                    status |-> None]) :
                            GetIn(last.pre, id).case.title = last.arg.query}
        IN  /\ \A i \in DOMAIN last.result.cases : last.result.cases[i].case_id \in matching
            /\ Len(last.result.cases) <= last.arg.limit
            /\ last.result.total_count = Cardinality(matching)

\* C15: a call of cleanup_expired that returns deletes only cases that are
\* CLOSED with a closed_at older than now minus max_age_days, at most batch_size
\* of them, returns the number it deleted and leaves every other case as it
\* was; a call that raises deletes nothing.
C15_CleanupSafety ==
    last.op = "cleanup_expired" =>
        LET deleted == StoredIds(last.pre) \ StoredIds(Snapshot)
            cutoff == now - last.arg.max_age_days
        IN  /\ StoredIds(Snapshot) \subseteq StoredIds(last.pre)
            /\ \A id \in StoredIds(Snapshot) : StoredCase(Snapshot, id) = StoredCase(last.pre, id)
            /\ \A id \in deleted :
                  LET c == GetIn(last.pre, id).case
                  IN  c.status = "closed" /\ c.closed_at # NullTime /\ c.closed_at < cutoff
            /\ last.raised => deleted = {}
            /\ ~last.raised =>
                  /\ Cardinality(deleted) <= last.arg.batch_size
                  /\ last.result.count = Cardinality(deleted)

\* C16: a call of cleanup_expired with batch_size >= 1 that reports a positive
\* count leaves fewer cases stored than before, so re-invoking it until it
\* reports 0 terminates; and once it reports 0 no case remains stored whose
\* latest save carried status CLOSED and a closed_at older than max_age_days.
C16_CleanupCompletes ==
    last.op = "cleanup_expired" /\ ~last.raised /\ last.arg.batch_size >= 1 =>
        /\ last.result.count > 0 =>
              Cardinality(StoredIds(Snapshot)) < Cardinality(StoredIds(last.pre))
        /\ last.result.count = 0 =>
              \A id \in StoredIds(Snapshot) \cap DOMAIN saved :
                  ~ /\ saved[id].status = "closed"
                    /\ saved[id].closed_at # NullTime
                    /\ saved[id].closed_at < now - last.arg.max_age_days

\* C17: update_activity_timestamp on a stored case returns True and changes
\* nothing but that case's last_activity_at: its other fields, its child
\* collections and every other case stay as they were. On an unknown case_id
\* it returns False and changes nothing.
C17_ActivityFrame ==
    last.op = "update_activity_timestamp" =>
        /\ ~last.raised
        /\ last.result.ok = (last.case_id \in StoredIds(last.pre))
        /\ IF last.result.ok
           THEN /\ db = IF storage_type = "postgres"
                        THEN [last.pre.db EXCEPT !.cases[last.case_id].last_activity_at =
                                                    db.cases[last.case_id].last_activity_at]
                        ELSE last.pre.db
                /\ cases = IF storage_type = "inmemory"
                           THEN [last.pre.cases EXCEPT ![last.case_id].last_activity_at =
                                                          cases[last.case_id].last_activity_at]
                           ELSE last.pre.cases
           ELSE Snapshot = last.pre

\* a case that has evidence is touched later than it was last active
C17_Witness ==
    /\ last.op = "update_activity_timestamp"
    /\ last.result.ok
    /\ DOMAIN Get(last.case_id).case.evidence # {}
    /\ Get(last.case_id).case.last_activity_at # GetIn(last.pre, last.case_id).case.last_activity_at
    /\ Get(last.case_id).case.updated_at < now

\* C18: a hybrid operation in which a statement failed raises, what it raises
\* is the RepositoryException the repository contract is declared with, and a
\* call that raised returned no case.
C18_SingleExceptionKind ==
    /\ "failed" \in DOMAIN last.arg => last.raised
    /\ last.raised =>
          /\ "case" \notin DOMAIN last.result
          /\ last.result.error = ContractRepositoryException

\* C19: get on a stored case never raises because of NULL embedded columns:
\* a NULL consulting, documentation or progress comes back as the type's
\* default, and a NULL optional column comes back as an absent sub-object.
C19_NullEmbedded ==
    last.op = "get" /\ last.case_id \in DOMAIN last.pre.db.cases =>
        /\ ~last.raised
        /\ \A n \in EmbeddedColumns :
              last.pre.db.cases[last.case_id].embedded[n] = SqlNull =>
                  last.result.case.embedded[n] =
                      IF n \in RequiredEmbedded THEN DefaultDoc(n) ELSE None

\* C20: user isolation. A CaseManager operation called with the id of a user
\* who does not own the stored case returns None or False and nothing else,
\* and leaves the store as it was; list_cases for a user returns only cases
\* owned by that user.
C20_UserIsolation ==
    /\ /\ last.op \in {"get_case", "update_case", "delete_case", "close_case", "add_evidence",
                        "get_evidence", "get_uploaded_files", "add_hypothesis",
                        "update_hypothesis"}
       /\ last.case_id \in StoredIds(last.pre)
       /\ last.arg.user_id \in UserIds
       /\ last.arg.user_id # GetIn(last.pre, last.case_id).case.user_id
       => /\ ~last.raised
          /\ last.result \in {[found |-> FALSE], [ok |-> FALSE]}
          /\ Snapshot = last.pre
    /\ last.op = "list" /\ last.arg.user_id # None =>
          \A i \in DOMAIN last.result.cases :
              last.result.cases[i].user_id = last.arg.user_id

\* user_a asks to close the stored case of user_b, which has evidence and files
C20_Witness ==
    /\ last.op = "close_case"
    /\ last.arg.user_id = "user_a"
    /\ last.case_id \in StoredIds(last.pre)
    /\ GetIn(last.pre, last.case_id).case.user_id = "user_b"
    /\ DOMAIN GetIn(last.pre, last.case_id).case.evidence # {}
    /\ last.result = [found |-> FALSE]

\* C21: create_case. For every valid request (title, description and priority
\* each optional) create_case returns a case that a following get_case of the
\* caller returns, with status consulting, the caller as owner and no
\* evidence, hypotheses, solutions, uploaded files or messages, on both backends.
C21_CreateCase ==
    last.op = "create_case" =>
        /\ ~last.raised
        /\ LET got == manager_get_case(Get(last.case_id), last.arg.user_id)
           IN  /\ got.found
               /\ got.case.case_id = last.result.case.case_id
               /\ \A c \in {got.case, last.result.case} :
                      /\ c.status = "consulting"
                      /\ c.user_id = last.arg.user_id
                      /\ \A f \in ChildCollections : DOMAIN c[f] = {}
                      /\ c.messages = <<>>
               /\ GetMessages(last.case_id) = <<>>
\* C22: a case_id is never reassigned. While a case_id stays stored, no save,
\* create_case or other operation changes the user_id stored for it: the owner
\* is constant from the first save of the id until its delete.
C22_CaseIdNeverReassigned ==
    \A id \in StoredIds(last.pre) \cap StoredIds(Snapshot) :
        GetIn(Snapshot, id).case.user_id = GetIn(last.pre, id).case.user_id
\* C23: last write wins per row. When two hybrid saves of the same case_id run
\* at the same time in sessions of their own and both commit, every row a save
\* wrote (the root row and each child row of its collections) holds exactly the
\* field values of that save after its commit, and every other row is as it
\* was: no row mixes the field values of two saves.
C23_LastWriteWins ==
    /\ last.op = "save"
    /\ ~last.raised
    /\ "overlapped" \in DOMAIN last.arg
    /\ last.arg.overlapped
    => LET alone == hybrid_save(EmptyDb, last.arg.case, "none").tx
       IN  /\ db.cases[last.case_id] = alone.cases[last.case_id]
           /\ \A t \in {"evidence", "hypotheses", "solutions", "uploaded_files"} :
                 \A id \in DOMAIN db[t] :
                     IF id \in DOMAIN alone[t]
                     THEN db[t][id] = alone[t][id]
                     ELSE id \in DOMAIN last.pre.db[t] /\ db[t][id] = last.pre.db[t][id]
\* C24: field updates through re-save. When a case is saved again with changed
\* field values in an evidence, solution or uploaded-file item it already
\* stores (same id), a following get returns the new value of every field of
\* that item.
C24_FieldUpdates ==
    /\ storage_type = "postgres"
    /\ last.op = "save"
    /\ ~last.raised
    /\ last.prev # <<>>
    => \A f \in {"evidence", "solutions", "uploaded_files"} :
          \A id \in DOMAIN last.arg.case[f] \cap DOMAIN last.prev[1][f] :
              last.arg.case[f][id] # last.prev[1][f][id] =>
                  /\ id \in DOMAIN Get(last.case_id).case[f]
                  /\ Get(last.case_id).case[f][id] = last.arg.case[f][id]
\* C25: cross-case isolation of save. A hybrid save of case A changes no row of
\* another case B: get(B) returns the same evidence, hypotheses, solutions and
\* uploaded files as before the save, and get(A) returns the items of A's
\* aggregate, even when one of their ids is already stored for B.
C25_SaveIsolation ==
    /\ storage_type = "postgres"
    /\ last.op = "save"
    /\ ~last.raised
    => /\ \A b \in DOMAIN last.pre.db.cases \ {last.case_id} :
             \A f \in ChildCollections :
                 hybrid_get(db, b).case[f] = hybrid_get(last.pre.db, b).case[f]
       /\ \A f \in ChildCollections :
             \A id \in DOMAIN last.arg.case[f] : id \in DOMAIN Get(last.case_id).case[f]
\* C26: hybrid analytics. For a stored case get_analytics returns the number of
\* evidence, hypothesis, solution, message and uploaded-file rows of that case,
\* and total_file_size is the sum of size_bytes over the case's uploaded files,
\* each file counted once.
C26_Analytics ==
    /\ storage_type = "postgres"
    /\ last.op = "get_analytics"
    /\ ~last.raised
    /\ last.case_id \in DOMAIN db.cases
    => LET rows == StoredFor(db, last.case_id)
       IN  /\ ~last.result.empty
           /\ last.result.evidence_count = Cardinality(DOMAIN rows.evidence)
           /\ last.result.hypothesis_count = Cardinality(DOMAIN rows.hypotheses)
           /\ last.result.solution_count = Cardinality(DOMAIN rows.solutions)
           /\ last.result.message_count = Len(rows.case_messages)
           /\ last.result.file_count = Cardinality(DOMAIN rows.uploaded_files)
           /\ last.result.total_file_size =
                  SumSizes(rows.uploaded_files, DOMAIN rows.uploaded_files)
\* C27: in-memory message bookkeeping. For a case first saved with no messages
\* and message_count 0, after any sequence of add_message and
\* update_activity_timestamp calls message_count equals the length of the
\* stored message list; each add_message on a stored case appends its message
\* as the last element and returns True; add_message on an unknown case_id
\* returns False and leaves every stored case unchanged.
C27_MessageBookkeeping ==
    storage_type = "inmemory" =>
        /\ \A id \in DOMAIN cases : cases[id].message_count = Len(cases[id].messages)
        /\ last.op = "add_message" /\ last.case_id \in DOMAIN last.pre.cases =>
              /\ ~last.raised
              /\ last.result = [ok |-> TRUE]
              /\ cases[last.case_id].messages =
                     Append(last.pre.cases[last.case_id].messages, last.arg.message)
        /\ last.op = "add_message" /\ last.case_id \notin DOMAIN last.pre.cases =>
              /\ ~last.raised
              /\ last.result = [ok |-> FALSE]
              /\ cases = last.pre.cases

\* a second message is appended to a case whose activity timestamp was updated
\* after its first message
C27_Witness ==
    /\ storage_type = "inmemory"
    /\ last.op = "add_message"
    /\ last.result = [ok |-> TRUE]
    /\ Len(last.pre.cases[last.case_id].messages) = 1
    /\ last.pre.cases[last.case_id].last_activity_at > 1
    /\ cases[last.case_id].message_count = 2
\* C28: in-memory save stores a copy of the aggregate. When the caller assigns
\* to the Case object after save has returned, or to the object get returned,
\* and does not save again, a later get of the case_id still returns the state
\* as of the last save.
C28_SaveStoresCopy ==
    /\ storage_type = "inmemory"
    /\ last.op = "get"
    /\ last.case_id \in DOMAIN saved
    => /\ last.result.found
       /\ last.result.case.title = saved[last.case_id].title
       /\ last.result.case.user_id = saved[last.case_id].user_id
       /\ last.result.case.status = saved[last.case_id].status
\* C29: in-memory search ranking. In the list search returns, every case whose
\* title holds the query (whatever the letter case) comes before every case
\* matched through its description only, also across the cut to limit, and a
\* case that matches in neither title nor description is never returned.
C29_SearchRanking ==
    storage_type = "inmemory" /\ last.op = "search" =>
        LET in_title(c) == lower(c.title) = lower(last.arg.query)
            in_description(c) == lower(c.description) = lower(last.arg.query)
            found == last.result.cases
        IN  /\ \A i \in DOMAIN found : in_title(found[i]) \/ in_description(found[i])
            /\ \A i, j \in DOMAIN found : in_title(found[i]) /\ ~in_title(found[j]) => i < j
            /\ \A id \in DOMAIN cases :
                  /\ in_title(cases[id])
                  /\ Matches(cases[id], last.arg.user_id, last.arg.organization_id, None)
                  /\ \A i \in DOMAIN found : found[i].case_id # id
                  => \A i \in DOMAIN found : in_title(found[i])

\* a search returns a title match first and a description-only match second
C29_Witness ==
    /\ storage_type = "inmemory"
    /\ last.op = "search"
    /\ Len(last.result.cases) >= 2
    /\ lower(last.result.cases[1].title) = lower(last.arg.query)
    /\ last.result.cases[1].title # last.arg.query
    /\ lower(last.result.cases[2].title) # lower(last.arg.query)
    /\ lower(last.result.cases[2].description) = lower(last.arg.query)
\* C30: CaseManager.list_cases(user_id, status, limit, offset) returns the
\* requested page of exactly the cases owned by user_id whose status is the
\* given one (of every status when none is given), with the total number of
\* such cases, on the in-memory and on the hybrid backend.
C30_ManagerList ==
    last.op = "list" =>
        /\ ~last.raised
        /\ LET matching == MatchingStored(last.pre, last.arg)
               N == Cardinality(matching)
               page == last.result.cases
           IN  /\ last.result.total_count = N
               /\ Len(page) = Min(last.arg.limit, Max(0, N - last.arg.offset))
               /\ \A i \in DOMAIN page : page[i].case_id \in matching
               /\ \A i, j \in DOMAIN page : i # j => page[i].case_id # page[j].case_id
====
